------------------------------- MODULE SignUp -------------------------------
(***************************************************************************)
(* RegisterForm of pages/Login.jsx: the user name field, whose             *)
(* availability is asked of the server half a second after the last key,   *)
(* and the validation that reads the verdict when the form is sent.        *)
(* A check is awaited twice, for the headers of its answer and for its     *)
(* body; the id it was given is compared after the first wait only.        *)
(***************************************************************************)
EXTENDS Integers, FiniteSets

CONSTANTS
  Name,       \* names one may type
  NoName,     \* the empty field
  Taken,      \* the names the server refuses
  MaxKeys     \* names typed, at most: clearing the field does not count

ASSUME NameAssumption == NoName \notin Name /\ Taken \subseteq Name /\ MaxKeys \in Nat

VARIABLES
  field,    \* username, usernameStatus and usernameCheckIdRef
  checks    \* checks waiting for their timer, their headers or their body
signUpVars == <<field, checks>>

Verdict(x) == IF x \in Taken THEN "taken" ELSE "available"
EmptyForm == [name |-> NoName, status |-> "idle", id |-> 0]
Check == [id : 1..MaxKeys, name : Name, step : {"timer", "sent", "head", "limited"}]

FormInit == field = EmptyForm /\ checks = {}

\* The effect's cleanup clears the timer of the name before, and nothing else.
Untimed(cs) == {c \in cs : c.step # "timer"}

\* The effect: an empty field returns before it takes a new id.
Superseded(x) == IF x = NoName THEN field.id ELSE field.id + 1

Type(x) ==
  /\ x \in Name \cup {NoName} /\ x # field.name /\ Superseded(x) <= MaxKeys
  /\ field' = [name |-> x, id |-> Superseded(x),
               status |-> IF x = NoName THEN "idle" ELSE "checking"]
  /\ checks' = Untimed(checks) \cup
                 {c \in {[id |-> field'.id, name |-> x, step |-> "timer"]} : x # NoName}

CheckStarts(c) ==
  /\ c \in checks /\ c.step = "timer"
  /\ checks' = (checks \ {c}) \cup {[c EXCEPT !.step = "sent"]} /\ UNCHANGED field

\* The headers: "a newer request superseded us".
CheckAnswered(c) ==
  /\ c \in checks /\ c.step = "sent" /\ UNCHANGED field
  /\ \E step \in {"head", "limited"} :
       checks' = (checks \ {c}) \cup {d \in {[c EXCEPT !.step = step]} : c.id = field.id}

\* The body; one that cannot be read counts as a malformed name, and an answer
\* of the rate limiter as no answer.
CheckRead(c) ==
  /\ c \in checks /\ checks' = checks \ {c}
  /\ \/ /\ c.step = "head"
        /\ \E status \in {Verdict(c.name), "invalid"} : field' = [field EXCEPT !.status = status]
     \/ c.step = "limited" /\ field' = [field EXCEPT !.status = "idle"]

\* No answer at all.
CheckFails(c) ==
  /\ c \in checks /\ c.step = "sent" /\ checks' = checks \ {c}
  /\ field' = IF c.id = field.id THEN [field EXCEPT !.status = "idle"] ELSE field

\* handleSubmit's validation, as far as the name is concerned.
MaySend == field.name # NoName /\ field.status \notin {"taken", "invalid"}

FormNext ==
  \/ \E x \in Name \cup {NoName} : Type(x)
  \/ \E c \in checks : CheckStarts(c) \/ CheckAnswered(c) \/ CheckRead(c) \/ CheckFails(c)

----------------------------------------------------------------------------
(* Properties.                                                             *)

\* "async username availability - debounced, race-condition-safe": the verdict
\* beside the field is the server's about the name in the field.
VerdictIsForTheName ==
  field.status \in {"available", "taken"} =>
    field.name # NoName /\ field.status = Verdict(field.name)
=============================================================================
