---------------------------------- MODULE MCFuota ----------------------------------
(* The deployments of the run: two devices without trouble, one device with *)
(* a trouble of each kind.                                                  *)
EXTENDS Fuota

CONSTANTS d1, d2

Deployment(devices, retries, request, trouble) ==
  [devices |-> devices, retries |-> retries, request |-> request, trouble |-> trouble]

MCScenarios ==
  {Deployment({d1, d2}, 0, r, "none") : r \in {"AfterFragEnqueue"}}
    \union {Deployment({d1}, 1, r, "none") : r \in Request}
    \union {Deployment({d1}, 0, r, "fault") : r \in Request}
    \union {Deployment({d1}, 0, "AfterFragEnqueue", "stale"),
            Deployment({d1}, 0, "NoRequest", "slow")}
================================================================================
