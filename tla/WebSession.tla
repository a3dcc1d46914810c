------------------------------ MODULE WebSession ------------------------------
(***************************************************************************)
(* Login and sessions: middlewareAuth(), handleLogIn(), and what setup()   *)
(* reads from the SD card.  A text is the sequence of its parts between    *)
(* "=" signs; <<>> is the empty String.  Session_dict maps the SHA-256 of  *)
(* a text to the text, so it is modelled by the set of its texts, and a    *)
(* cookie by the text whose digest it holds; to have no cookie has the     *)
(* effect of one for the empty text.                                       *)
(***************************************************************************)
EXTENDS Integers, Sequences

CONSTANTS Browsers,       \* the clients that keep a cookie
          Texts,          \* what may be typed as a password
          CardPasswords   \* what /crypto/password.txt may hold

Empty == <<>>

(* getPassword(): random, and so nothing that anybody types.               *)
Generated == <<"random", "text">>

(* The owner's password can be typed, is not empty and has no "=" in it.   *)
ASSUME SessionAssumption ==
    /\ Texts \subseteq Seq(STRING) /\ Empty \in Texts /\ Generated \notin Texts
    /\ CardPasswords \subseteq Texts
    /\ \A p \in CardPasswords : Len(p) = 1

VARIABLES
    cardPassword,  \* /crypto/password.txt
    Session_dict,  \* /data/session.kvdb
    mounted,       \* the card answers
    PASSWORD,
    cookie,        \* what each browser typed when it last logged in
    greeted        \* History: that text, if it was stored and answered with
                   \* the page for those who are logged in

sessionVars == <<cardPassword, Session_dict, mounted, PASSWORD, cookie, greeted>>

SessionTypeOK ==
    /\ cardPassword \in CardPasswords
    /\ Session_dict \subseteq Texts
    /\ mounted \in BOOLEAN
    /\ PASSWORD \in CardPasswords \cup {Empty, Generated}
    /\ cookie \in [Browsers -> Texts]
    /\ greeted \in [Browsers -> CardPasswords \cup {Empty}]

(* The first start, with a new card, before setup().                       *)
SessionInit ==
    /\ cardPassword \in CardPasswords
    /\ Session_dict = {}
    /\ mounted = FALSE
    /\ PASSWORD = Generated
    /\ cookie = [b \in Browsers |-> Empty]
    /\ greeted = [b \in Browsers |-> Empty]

(* After a reset: the owner may have changed the password on the card.     *)
SessionReset ==
    /\ cardPassword' \in CardPasswords
    /\ mounted' = FALSE
    /\ PASSWORD' = Generated
    /\ UNCHANGED <<Session_dict, cookie, greeted>>

(* readString() of a file that could not be opened is empty.               *)
ReadString == IF mounted' THEN {cardPassword, Empty} ELSE {Empty}

(* Faulty variant: the sessions are kept in a new file.                    *)
SessionSetupForgets ==
    /\ mounted' \in BOOLEAN
    /\ PASSWORD' \in ReadString
    /\ Session_dict' = {}
    /\ UNCHANGED <<cardPassword, cookie, greeted>>

(* setup(): SD.begin(), Session_dict.Open(), and the password is read.     *)
SessionSetup ==
    /\ mounted' \in BOOLEAN
    /\ PASSWORD' \in ReadString
    /\ UNCHANGED <<cardPassword, Session_dict, cookie, greeted>>

(* The card stops answering.                                               *)
CardFails ==
    /\ mounted /\ mounted' = FALSE
    /\ UNCHANGED <<cardPassword, Session_dict, PASSWORD, cookie, greeted>>

(* substring(lastIndexOf("=") + 1, length())                               *)
Trimmed(text) == IF text = Empty THEN Empty ELSE <<text[Len(text)]>>

(* Session_dict[Cookie], empty if the lookup sets an error flag.           *)
Lookup(b) == IF mounted /\ cookie[b] \in Session_dict THEN cookie[b] ELSE Empty

(* Faulty variant: the password is looked at only when it is first typed.  *)
AdmittedByCookie(b) == Lookup(b) # Empty

(* user_password_trimmed == PASSWORD                                       *)
Admitted(b) == Trimmed(Lookup(b)) = PASSWORD

(* handleLogIn(): middlewareAuth() answers /admin itself for those who are *)
(* logged in already.  Storing the text may fail; the answer is the same.  *)
HandleLogIn(b, text) ==
    /\ ~Admitted(b)
    /\ Session_dict' \in {Session_dict} \cup
                         {Session_dict \cup s : s \in IF mounted THEN {{text}} ELSE {}}
    /\ cookie' = [cookie EXCEPT ![b] = text]
    /\ greeted' = [greeted EXCEPT ![b] =
                      IF text = PASSWORD /\ text \in Session_dict' THEN text ELSE Empty]
    /\ UNCHANGED <<cardPassword, mounted, PASSWORD>>
===============================================================================
