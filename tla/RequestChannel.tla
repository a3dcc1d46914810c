---------------------------- MODULE RequestChannel ----------------------------
(***************************************************************************)
(* What a mailbox between the two tasks promises: one request at a time,   *)
(* taken by the worker exactly once, as it was asked, and answered only    *)
(* when the worker is done with it.  A request without a payload asks for  *)
(* nothing and is answered at once.  Only a reset of the board wipes a     *)
(* request, and the worker takes none before it has started up again.      *)
(***************************************************************************)
CONSTANTS Payloads, Nothing

VARIABLES phase,    \* how far the request has come
          asked,    \* its payload
          done,     \* what the worker has taken on
          starting  \* the board has been reset and the worker is not up yet

channelVars == <<phase, asked, done, starting>>

Idle == phase = "idle" /\ asked = Nothing /\ done = Nothing

ChannelInit == Idle /\ starting = TRUE

Started ==
    /\ starting
    /\ starting' = FALSE
    /\ UNCHANGED <<phase, asked, done>>

Ask(v) ==
    /\ phase = "idle"
    /\ phase' = IF v = Nothing THEN "finished" ELSE "posted"
    /\ asked' = v
    /\ done' = Nothing
    /\ UNCHANGED starting

Take ==
    /\ ~starting
    /\ phase = "posted"
    /\ phase' = "running"
    /\ done' = asked
    /\ UNCHANGED <<asked, starting>>

Finish ==
    /\ ~starting
    /\ phase = "running"
    /\ phase' = "finished"
    /\ UNCHANGED <<asked, done, starting>>

Reply ==
    /\ phase = "finished"
    /\ phase' = "idle" /\ asked' = Nothing /\ done' = Nothing
    /\ UNCHANGED starting

Wipe ==
    /\ phase' = "idle" /\ asked' = Nothing /\ done' = Nothing
    /\ starting' = TRUE

ChannelNext ==
    \/ Started
    \/ \E v \in Payloads \cup {Nothing} : Ask(v)
    \/ Take \/ Finish \/ Reply
    \/ Wipe

ChannelSpec == ChannelInit /\ [][ChannelNext]_channelVars
==============================================================================
