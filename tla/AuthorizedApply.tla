-------------------------- MODULE AuthorizedApply --------------------------
(***************************************************************************)
(* What the record chain promises its callers.  A caller submits a call;   *)
(* the call may grant licences, and is answered in one step: with the      *)
(* program it came with, or with a rewriting that a licence granted so far *)
(* allows.  A call may also fail, and then there is no answer.             *)
(* Programs(k, a) are the programs a call k may come with after the answer *)
(* a, Granted(k) the identities it gives a right to, and Rewritings(p, L)  *)
(* the programs that p may become under the licences L.                    *)
(***************************************************************************)
CONSTANTS Callers, Calls, Programs(_, _), Granted(_), Rewritings(_, _)

VARIABLES
  licensed,  \* the identities granted so far
  source,    \* source[c]: <<the program caller c came with>>, or <<>>
  answer     \* answer[c]: <<the program it got back>>, or <<>>

absVars == <<licensed, source, answer>>

AbsInit ==
  /\ licensed = {}
  /\ source = [c \in Callers |-> <<>>] /\ answer = [c \in Callers |-> <<>>]

Submit(c) ==
  \E k \in Calls :
    /\ \E p \in Programs(k, answer[c]) : source' = [source EXCEPT ![c] = <<p>>]
    /\ answer' = [answer EXCEPT ![c] = <<>>]
    /\ licensed' = licensed \cup Granted(k)

Answer(c) ==
  /\ source[c] # <<>>
  /\ \E p \in {source[c][1]} \cup Rewritings(source[c][1], licensed) :
       answer' = [answer EXCEPT ![c] = <<p>>]
  /\ UNCHANGED <<licensed, source>>

Fail(c) ==
  /\ source' = [source EXCEPT ![c] = <<>>] /\ answer' = [answer EXCEPT ![c] = <<>>]
  /\ UNCHANGED licensed

AbsNext == \E c \in Callers : Submit(c) \/ Answer(c) \/ Fail(c)
AbsSpec == AbsInit /\ [][AbsNext]_absVars
=============================================================================
