----------------------------- MODULE KeyRequests -----------------------------
(***************************************************************************)
(* The requests made with one downstream key: where each stands in the     *)
(* admission chain of auth/proxy.go, which gateway process it runs in, and *)
(* the clock that the processes and their database share.                  *)
(***************************************************************************)
EXTENDS Integers, Sequences, FiniteSets, FiniteSetsExt

CONSTANTS
  Requests,
  Gateways,   \* gateway processes
  NoRequest,  \* nobody
  Keys,       \* settings a key may have: quota policy and limits
  MaxTime,    \* bound on the clock, for each setting
  MaxFaults   \* bound on failed statements, lost replies and crashes together

NoLimit == 0

Settings == [period : {"none", "all_time", "past", "calendar"}, length : Nat \ {0}, requests : Nat, tokens : Nat,
             rpm : Nat, tpm : Nat, max : Nat, redis : BOOLEAN]

ASSUME RequestsAssumption ==
  /\ IsFiniteSet(Requests) /\ NoRequest \notin Requests
  /\ Keys \subseteq Settings /\ MaxTime \in [Keys -> Nat] /\ MaxFaults \in Nat

VARIABLES
  key,    \* the settings of the key: they do not change
  now,
  pc,     \* the next step of a request
  home,   \* its process
  faults

requestVars == <<key, now, pc, home, faults>>

Goto(r, l) == pc' = [pc EXCEPT ![r] = l]
Fault == faults < MaxFaults /\ faults' = faults + 1
Over(r) == pc[r] \in {"ended", "crashed"}
InProgress(r) == pc[r] # "new" /\ ~Over(r)

RequestsInit ==
  /\ key \in Keys
  /\ now = 0
  /\ pc = [r \in Requests |-> "new"]
  /\ home \in [Requests -> Gateways]
  /\ faults = 0

Labels == {"new", "read", "summing", "admit", "decide", "rpm", "undoRpm", "tpm", "undoTpm", "record",
           "consume", "running", "disabling", "done", "ended", "crashed"}

RequestsTypeOK ==
  /\ key \in Keys
  /\ now \in 0..MaxTime[key]
  /\ pc \in [Requests -> Labels]
  /\ home \in [Requests -> Gateways]
  /\ faults \in 0..MaxFaults
=============================================================================
