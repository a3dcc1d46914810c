----------------------------- MODULE PanelProofs ------------------------------
(***************************************************************************)
(* Proofs about Panel for any browsers, texts, passwords and buttons.      *)
(***************************************************************************)
EXTENDS Panel, TLAPS

(* Trimming leaves a password without "=" as it is.                        *)
LEMMA PasswordTrimmed ==
  ASSUME NEW p \in CardPasswords
  PROVE  p # Empty /\ Trimmed(p) = p
  <1>1. p \in Seq(STRING) /\ Len(p) = 1
    BY SessionAssumption
  <1>2. p # Empty
    BY <1>1 DEF Empty
  <1>3. <<p[1]>> = p
    BY <1>1
  <1> QED
    BY <1>1, <1>2, <1>3 DEF Trimmed

(* Whoever is let in while there is a password holds a stored session of   *)
(* it.                                                                     *)
LEMMA AdmittedHasSession ==
  ASSUME NEW b \in Browsers, Admitted(b), PASSWORD # Empty
  PROVE  cookie[b] \in Session_dict /\ Trimmed(cookie[b]) = PASSWORD
  <1>1. Lookup(b) # Empty
    BY DEF Admitted, Trimmed
  <1> QED
    BY <1>1 DEF Admitted, Lookup

(* The panel starts in setup() and nobody is logged in.                    *)
LEMMA PanelInitInv == PanelInit => PanelInv
  <1> SUFFICES ASSUME PanelInit PROVE PanelInv
    OBVIOUS
  <1> USE DEF PanelInit, SessionInit, OutputsInit
  <1>1. SessionTypeOK
    BY SessionAssumption DEF SessionTypeOK
  <1>2. OutputsTypeOK
    BY OutputsAssumption DEF OutputsTypeOK
  <1> QED
    BY <1>1, <1>2
       DEF PanelInv, PanelTypeOK, CommandsFromOwner, PressedByHandler

(* A login replaces the cookie and the greeting of one browser together.   *)
LEMMA LogInStep ==
  ASSUME PanelInv, NEW b \in Browsers, NEW text \in Texts, LogIn(b, text)
  PROVE  PanelInv'
  <1> USE DEF LogIn, HandleLogIn, outputVars
  <1>1. Session_dict \subseteq Session_dict' /\ Session_dict' \subseteq Texts
    BY DEF PanelInv, PanelTypeOK, SessionTypeOK
  <1>2. SessionTypeOK'
    BY <1>1, SessionAssumption, Zenon DEF PanelInv, PanelTypeOK, SessionTypeOK
  <1>3. (OutputsTypeOK /\ client \in Browsers)'
    BY DEF PanelInv, PanelTypeOK, OutputsTypeOK
  <1>4. \A c \in Browsers : greeted'[c] # Empty
           => cookie'[c] = greeted'[c] /\ greeted'[c] \in Session_dict'
    <2> TAKE c \in Browsers
    <2>1. CASE c = b
      BY <2>1 DEF PanelInv, PanelTypeOK, SessionTypeOK
    <2>2. CASE c # b
      BY <2>2, <1>1 DEF PanelInv, PanelTypeOK, SessionTypeOK
    <2> QED
      BY <2>1, <2>2
  <1> QED
    BY <1>2, <1>3, <1>4
       DEF PanelInv, PanelTypeOK, CommandsFromOwner, PressedByHandler

(* Every step of the panel keeps the invariant.                            *)
LEMMA PanelStep == PanelInv /\ [PanelNext]_panelVars => PanelInv'
  <1> SUFFICES ASSUME PanelInv, [PanelNext]_panelVars PROVE PanelInv'
    OBVIOUS
  <1> USE DEF PanelInv, PanelTypeOK, SessionTypeOK, OutputsTypeOK, PressedByHandler
  <1>1. ASSUME NEW b \in Browsers, Command(b) PROVE PanelInv'
    <2>1. PASSWORD # Empty => cookie[b] \in Session_dict /\ Trimmed(cookie[b]) = PASSWORD
      BY <1>1, AdmittedHasSession DEF Command
    <2>2. CommandsFromOwner'
      BY <1>1, <2>1 DEF Command, sessionVars, CommandsFromOwner, Trimmed, Empty
    <2> QED
      BY <1>1, <2>2 DEF Command, Dispatch, sessionVars
  <1>2. ASSUME NEW b \in Browsers, NEW text \in Texts, LogIn(b, text) PROVE PanelInv'
    BY <1>2, LogInStep
  <1>3. CASE Handler
    BY <1>3 DEF Handler, Pressing, Press, Release, LedcWrite, sessionVars, CommandsFromOwner, Trimmed
  <1>4. CASE CardLost
    BY <1>4 DEF CardLost, CardFails, outputVars, CommandsFromOwner, Trimmed
  <1>5. CASE Setup
    BY <1>5, OutputsAssumption DEF Setup, SessionSetup, ReadString, OutputsSetup, CommandsFromOwner
  <1>6. CASE Reset
    BY <1>6, OutputsAssumption DEF Reset, SessionReset, OutputsReset, CommandsFromOwner
  <1>7. CASE UNCHANGED panelVars
    BY <1>7 DEF panelVars, sessionVars, outputVars, CommandsFromOwner, Trimmed
  <1> QED
    BY <1>1, <1>2, <1>3, <1>4, <1>5, <1>6, <1>7 DEF PanelNext

-----------------------------------------------------------------------------
(* The sessions, the handlers and the pins stay as PanelInv says.          *)
THEOREM PanelInvariance == PanelSpec => []PanelInv
  BY PanelInitInv, PanelStep, PTL DEF PanelSpec

(* middlewareAuth() lets no session of an older password command the       *)
(* buttons or the fan.                                                     *)
THEOREM CommandsAreFromOwner == PanelSpec => []CommandsFromOwner
  <1>1. PanelInv => CommandsFromOwner
    BY DEF PanelInv
  <1> QED
    BY <1>1, PanelInvariance, PTL

(* An accepted and stored login lasts until the password changes.          *)
THEOREM GreetedAreLet == PanelSpec => []GreetedIsLet
  <1>1. PanelInv => GreetedIsLet
    <2> SUFFICES ASSUME PanelInv, NEW b \in Browsers,
                        mounted, greeted[b] # Empty, greeted[b] = PASSWORD
                 PROVE  Admitted(b)
      BY DEF GreetedIsLet
    <2>1. Lookup(b) = greeted[b]
      BY DEF PanelInv, Lookup
    <2>2. greeted[b] \in CardPasswords
      BY DEF PanelInv, PanelTypeOK, SessionTypeOK
    <2> QED
      BY <2>1, <2>2, PasswordTrimmed DEF Admitted
  <1> QED
    BY <1>1, PanelInvariance, PTL

(* No button is down but the one whose handler is in its delay().          *)
THEOREM ButtonsAreReleased == PanelSpec => []PressedByHandler
  <1>1. PanelInv => PressedByHandler
    BY DEF PanelInv
  <1> QED
    BY <1>1, PanelInvariance, PTL

-----------------------------------------------------------------------------
(* While a pin is HIGH, its handler is in its delay(), and the only step   *)
(* of that handler releases it.                                            *)
ButtonDown == pins # {}

(* A delay() that ends leaves no button down.  What the prover cannot      *)
(* derive, that the handler is able to take its step, is PressCanStep,     *)
(* which can be read off the steps.                                        *)
LEMMA ButtonComesUp ==
  PanelFairSpec /\ []PressCanStep => (ButtonDown ~> ~ButtonDown)
  <1>1. PanelInv /\ PressCanStep /\ ButtonDown => ENABLED <<Pressing>>_panelVars
    BY DEF PanelInv, PressedByHandler, PressCanStep, ButtonDown
  <1>2. PanelInv /\ ButtonDown /\ <<Pressing>>_panelVars => ~ButtonDown'
    BY DEF PanelInv, PressedByHandler, ButtonDown, Pressing, Press, Release
  <1> QED
    BY <1>1, <1>2, PanelInvariance, PTL DEF PanelFairSpec

(* No power button stays pressed, whatever the other requests, the card    *)
(* and the power do meanwhile.                                             *)
THEOREM PressesEnd == PanelFairSpec /\ []PressCanStep => PressEnds
  <1> SUFFICES ASSUME NEW i \in Buttons
               PROVE  PanelFairSpec /\ []PressCanStep => (i \in pins ~> i \notin pins)
    BY DEF PressEnds
  <1>1. /\ i \in pins => ButtonDown
        /\ ~ButtonDown => i \notin pins
    BY DEF ButtonDown
  <1> QED
    BY <1>1, ButtonComesUp, PTL
===============================================================================
