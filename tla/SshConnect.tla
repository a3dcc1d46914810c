------------------------------ MODULE SshConnect ------------------------------
(***************************************************************************)
(* What ex_main() relies on: connect() and brutal_exception() change an    *)
(* ssh_conn object in one step, as SshOutcomes says.  What connect() and   *)
(* brutal_exception() rely on: ex_main() calls the one for an object       *)
(* without a session, the other for one whose session has been assigned.   *)
(***************************************************************************)
EXTENDS SshOutcomes

VARIABLE object

Unassigned == [session |-> "wild", channel |-> "wild", begun |-> 1]

ConnectInit == object = Unassigned

ConnectNext ==
    \/ object.session # "live" /\ object' \in Connect(object)
    \/ object.session # "wild" /\ object' = BrutalException(object)

ConnectSpec == ConnectInit /\ [][ConnectNext]_object

(* A step of a board that may also be reset in between.                    *)
BoardNext == [ConnectNext \/ object' = Unassigned]_object
===============================================================================
