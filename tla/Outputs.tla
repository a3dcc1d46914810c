------------------------------- MODULE Outputs --------------------------------
(***************************************************************************)
(* The pins behind the power buttons of the laptops and the PWM duty of    *)
(* the fan, written by handleToggle1 to handleToggle6 and by handleFan.    *)
(***************************************************************************)
CONSTANTS Buttons,  \* LAPTOP_HP_1 and so on
          Speeds    \* the duties that may be asked for, 0 among them

ASSUME OutputsAssumption == 0 \in Speeds

VARIABLES
    pins,       \* the buttons whose pin is HIGH
    duty,       \* of LEDC channel 0
    handlerAt,  \* where the server task is in one of the handlers
    button      \* and the button it handles

outputVars == <<pins, duty, handlerAt, button>>

OutputsTypeOK ==
    /\ pins \subseteq Buttons
    /\ duty \in Speeds
    /\ handlerAt \in {"setup", "idle", "press", "delay", "fan"}
    /\ button \in Buttons

OutputsInit ==
    /\ pins = {} /\ duty = 0
    /\ handlerAt = "setup" /\ button \in Buttons

(* A reset turns every pin into an input.                                  *)
OutputsReset ==
    /\ pins' = {} /\ duty' = 0
    /\ handlerAt' = "setup"
    /\ UNCHANGED button

(* setup(): digitalWrite(LOW) for every button, ledcWrite(0, 0); then the  *)
(* server task is started.                                                 *)
OutputsSetup ==
    /\ handlerAt = "setup"
    /\ pins' = {} /\ duty' = 0
    /\ handlerAt' = "idle"
    /\ UNCHANGED button

(* The middleware calls next() for /toggle1 ... or for /fan.               *)
Dispatch ==
    /\ handlerAt = "idle"
    /\ \/ handlerAt' = "press" /\ button' \in Buttons
       \/ handlerAt' = "fan" /\ UNCHANGED button
    /\ UNCHANGED <<pins, duty>>

(* digitalWrite(HIGH), then the second of delay() begins.                  *)
Press ==
    /\ handlerAt = "press"
    /\ pins' = pins \cup {button}
    /\ handlerAt' = "delay"
    /\ UNCHANGED <<duty, button>>

(* Faulty variant: the pin stays HIGH.                                     *)
ReleaseForgets ==
    /\ handlerAt = "delay"
    /\ handlerAt' = "idle"
    /\ UNCHANGED <<pins, duty, button>>

(* digitalWrite(LOW)                                                       *)
Release ==
    /\ handlerAt = "delay"
    /\ pins' = pins \ {button}
    /\ handlerAt' = "idle"
    /\ UNCHANGED <<duty, button>>

(* handleFan(): the body is complete.                                      *)
LedcWrite ==
    /\ handlerAt = "fan"
    /\ duty' \in Speeds
    /\ handlerAt' = "idle"
    /\ UNCHANGED <<pins, button>>
===============================================================================
