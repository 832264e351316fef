---------------------------- MODULE InstallStore ----------------------------
(***************************************************************************)
(* What the install transaction promises, with no lock, staging directory  *)
(* or receipt index: a version directory is published in one step and only *)
(* once, and an operation's answer is consistent with what is published.   *)
(***************************************************************************)
CONSTANTS Ops, Keys, KeyOf, Contents, ContentsOf, NoOp, NoContent

VARIABLES
  store,    \* per InstallKey: nothing, something foreign, or an install
  answer    \* per operation: "none", "success" or "error"

vars == <<store, answer>>

Nothing == [kind |-> "nothing", content |-> NoContent, by |-> NoOp]
Entries == [kind : {"nothing", "foreign", "install"},
            content : Contents \cup {NoContent}, by : Ops \cup {NoOp}]

Init == store = [k \in Keys |-> Nothing] /\ answer = [o \in Ops |-> "none"]

\* The install of `o` appears, complete, where nothing was.
Publish(o) ==
  /\ answer[o] = "none"
  /\ store[KeyOf[o]].kind = "nothing"
  /\ \E c \in ContentsOf[o] :
       store' = [store EXCEPT ![KeyOf[o]] = [kind |-> "install", content |-> c, by |-> o]]
  /\ UNCHANGED answer

\* Success means that an install `o` could have led to is there, its own or
\* an identical one.
Succeed(o) ==
  /\ answer[o] = "none"
  /\ store[KeyOf[o]].kind = "install" /\ store[KeyOf[o]].content \in ContentsOf[o]
  /\ answer' = [answer EXCEPT ![o] = "success"]
  /\ UNCHANGED store

\* An operation that published never answers with an error.
Fail(o) ==
  /\ answer[o] = "none"
  /\ \A k \in Keys : store[k].by # o
  /\ answer' = [answer EXCEPT ![o] = "error"]
  /\ UNCHANGED store

\* Somebody else puts a directory or a copy of an install there.
Intrude(k) ==
  /\ store[k].kind = "nothing"
  /\ \/ store' = [store EXCEPT ![k] = [Nothing EXCEPT !.kind = "foreign"]]
     \/ \E c \in Contents :
          store' = [store EXCEPT ![k] = [kind |-> "install", content |-> c, by |-> NoOp]]
  /\ UNCHANGED answer

Next ==
  \/ \E o \in Ops : Publish(o) \/ Succeed(o) \/ Fail(o)
  \/ \E k \in Keys : Intrude(k)

Spec == Init /\ [][Next]_vars
=============================================================================
