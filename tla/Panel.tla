-------------------------------- MODULE Panel ---------------------------------
(***************************************************************************)
(* The server task as a control panel: requests pass middlewareAuth() one  *)
(* at a time and reach the login, the power buttons or the fan, while the  *)
(* card or the power may fail at any moment.                               *)
(***************************************************************************)
EXTENDS WebSession, Outputs

VARIABLE client  \* whose request the server task handles, or handled last

panelVars == <<sessionVars, outputVars, client>>

PanelInit == SessionInit /\ OutputsInit /\ client \in Browsers

(* middlewareAuth() for a page of the panel                                *)
Command(b) ==
    /\ Admitted(b)
    /\ Dispatch
    /\ client' = b
    /\ UNCHANGED sessionVars

LogIn(b, text) ==
    /\ handlerAt = "idle"
    /\ HandleLogIn(b, text)
    /\ UNCHANGED <<outputVars, client>>

Pressing == (Press \/ Release) /\ UNCHANGED <<sessionVars, client>>

Handler == Pressing \/ (LedcWrite /\ UNCHANGED <<sessionVars, client>>)

CardLost == CardFails /\ UNCHANGED <<outputVars, client>>

Setup == SessionSetup /\ OutputsSetup /\ UNCHANGED client

Reset == SessionReset /\ OutputsReset /\ UNCHANGED client

PanelNext ==
    \/ \E b \in Browsers : Command(b) \/ \E text \in Texts : LogIn(b, text)
    \/ Handler
    \/ CardLost
    \/ Setup
    \/ Reset

PanelSpec == PanelInit /\ [][PanelNext]_panelVars

(* A delay() ends.                                                         *)
PanelFairSpec == PanelSpec /\ WF_panelVars(Pressing)

-----------------------------------------------------------------------------
PanelTypeOK == SessionTypeOK /\ OutputsTypeOK /\ client \in Browsers

(* What the handlers do is done for a browser that logged in with the      *)
(* password in force, however old its session: after a new password has    *)
(* been read from the card, sessions of the old one open nothing.          *)
CommandsFromOwner ==
    handlerAt \in {"press", "delay", "fan"} /\ PASSWORD # Empty
        => cookie[client] \in Session_dict /\ Trimmed(cookie[client]) = PASSWORD

(* A browser whose login was stored and accepted is let in for as long as  *)
(* the password is the same, over resets, failed resets and logins of      *)
(* others.                                                                 *)
GreetedIsLet ==
    \A b \in Browsers :
        mounted /\ greeted[b] # Empty /\ greeted[b] = PASSWORD => Admitted(b)

(* A pin is HIGH only during the delay of its handler: at most one button  *)
(* is pressed and a reset releases it.                                     *)
PressedByHandler == \A i \in pins : handlerAt = "delay" /\ button = i

(* Every press ends.                                                       *)
PressEnds == \A i \in Buttons : i \in pins ~> i \notin pins

(* Nothing holds up the handler of a button but its own delay(): the shape *)
(* of the steps, a hypothesis of the proof of PressEnds.                   *)
PressCanStep == handlerAt \in {"press", "delay"} => ENABLED <<Pressing>>_panelVars

(* A greeted browser still holds the cookie of that login.  Inductive.     *)
PanelInv ==
    /\ PanelTypeOK
    /\ CommandsFromOwner
    /\ PressedByHandler
    /\ \A b \in Browsers : greeted[b] # Empty
          => cookie[b] = greeted[b] /\ greeted[b] \in Session_dict

-----------------------------------------------------------------------------
(* main.cpp: an initial value is generated "in case the sd card fails to   *)
(* load, so the password is not set to """.                                *)
PasswordSet == PASSWORD # Empty
===============================================================================
