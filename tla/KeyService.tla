----------------------------- MODULE KeyService -----------------------------
(***************************************************************************)
(* What a server of src/tcpserver promises its clients.  The commands of a *)
(* client take effect one at a time, in the order of its lines, each at    *)
(* most once and at some instant between its arrival and its answer, as if *)
(* there were no other connection; none takes effect before the client has *)
(* shown the password.  A connection may end at any time: its later lines  *)
(* are then ignored, and an effect may stay without its answer.  A value   *)
(* whose key never had a ttl stays until a client removes it.              *)
(***************************************************************************)
EXTENDS SequencesExt

CONSTANTS Clients, Keys, Passwords, NoValue, NoReply, NoPassword,
          NoTtl,      \* the ttl of a command that gives none
          Guarded     \* a password is needed

VARIABLES store,      \* the value of each key, or NoValue
          mortal,     \* keys for which a deadline may be pending
          password,   \* the password that is accepted now, or NoPassword
          present,    \* clients that are connected
          entitled,   \* clients whose commands are carried out
          calls,      \* the commands each client waits for
          answer      \* the answer on its way to each client, or NoReply

client == <<present, entitled, calls, answer>>
vars == <<store, mortal, password, client>>

Init == /\ store = [k \in Keys |-> NoValue] /\ mortal = {}
        /\ password = NoPassword
        /\ present = [c \in Clients |-> FALSE]
        /\ entitled = [c \in Clients |-> FALSE]
        /\ calls = [c \in Clients |-> <<>>]
        /\ answer = [c \in Clients |-> NoReply]

Join(c) == /\ ~present[c]
           /\ present' = [present EXCEPT ![c] = TRUE]
           /\ entitled' = [entitled EXCEPT ![c] = ~Guarded]
           /\ UNCHANGED <<store, mortal, password, calls, answer>>

\* A client may send several commands before it reads an answer.
Call(c) == /\ present[c]
           /\ IsPrefix(calls[c], calls'[c])
           /\ calls' = [calls EXCEPT ![c] = calls'[c]]
           /\ UNCHANGED <<store, mortal, password, present, entitled, answer>>

\* a is an answer to the command r, and the store becomes what r makes of it.
Answered(r, a) ==
    \/ /\ \/ r.cmd = "SET"
          \/ r.cmd = "SETNX" /\ store[r.key] = NoValue
       /\ a = "OK"
       /\ store' = [store EXCEPT ![r.key] = r.value]
       /\ mortal' \in {mortal} \cup IF r.ttl = NoTtl THEN {} ELSE {mortal \cup {r.key}}
    \/ /\ r.cmd = "SETNX" /\ store[r.key] # NoValue
       /\ a = "NOT_SET"
       /\ UNCHANGED <<store, mortal>>
    \/ /\ r.cmd = "GET"
       /\ a = IF store[r.key] = NoValue THEN "NULL" ELSE store[r.key]
       /\ UNCHANGED <<store, mortal>>
    \* A key that has expired may still be found.
    \/ /\ r.cmd = "DEL"
       /\ a = "OK" /\ (store[r.key] # NoValue \/ r.key \in mortal)
       /\ store' = [store EXCEPT ![r.key] = NoValue]
       /\ mortal' \in {mortal, mortal \ {r.key}}
    \/ /\ r.cmd = "DEL" /\ store[r.key] = NoValue
       /\ a = "NOT_FOUND"
       /\ UNCHANGED <<store, mortal>>
    \/ /\ r.cmd = "KEYS"
       /\ a = {k \in Keys : store[k] # NoValue}
       /\ UNCHANGED <<store, mortal>>
    \/ /\ r.cmd = "FLUSHALL"
       /\ a = "OK"
       /\ store' = [k \in Keys |-> NoValue] /\ mortal' = {}
    \/ /\ r.cmd = "MALFORMED"
       /\ a = "ERROR"
       /\ UNCHANGED <<store, mortal>>

\* The first command of c takes effect.
Do(c) == LET r == Head(calls[c])
         IN /\ calls[c] # <<>> /\ answer[c] = NoReply
            /\ calls' = [calls EXCEPT ![c] = Tail(@)]
            /\ answer'[c] # NoReply
            /\ answer' = [answer EXCEPT ![c] = answer'[c]]
            /\ \/ /\ r.cmd = "AUTH"
                  /\ entitled' = [entitled EXCEPT ![c] = @ \/ r.password = password]
                  /\ answer'[c] = IF ~Guarded \/ r.password = password
                                  THEN "AUTHENTICATED" ELSE "ERROR"
                  /\ UNCHANGED <<store, mortal>>
               \/ /\ r.cmd # "AUTH" /\ entitled[c]
                  /\ Answered(r, answer'[c])
                  /\ UNCHANGED entitled
               \/ /\ r.cmd # "AUTH" /\ ~entitled[c]
                  /\ answer'[c] = "ERROR"
                  /\ UNCHANGED <<store, mortal, entitled>>
            /\ UNCHANGED <<password, present>>

Deliver(c) == /\ answer[c] # NoReply
              /\ answer' = [answer EXCEPT ![c] = NoReply]
              /\ UNCHANGED <<store, mortal, password, present, entitled, calls>>

\* An empty line is no command.
Ignore(c) == /\ calls[c] # <<>> /\ Head(calls[c]).cmd = "EMPTY"
             /\ calls' = [calls EXCEPT ![c] = Tail(@)]
             /\ UNCHANGED <<store, mortal, password, present, entitled, answer>>

Leave(c) == /\ present[c]
            /\ present' = [present EXCEPT ![c] = FALSE]
            /\ entitled' = [entitled EXCEPT ![c] = FALSE]
            /\ calls' = [calls EXCEPT ![c] = <<>>]
            /\ answer' = [answer EXCEPT ![c] = NoReply]
            /\ UNCHANGED <<store, mortal, password>>

\* Deadlines come.
Expire == /\ mortal' \subseteq mortal
          /\ store' = [k \in Keys |-> IF k \in mortal /\ store'[k] = NoValue
                                      THEN NoValue ELSE store[k]]
          /\ UNCHANGED <<password, client>>

ChangePassword == /\ password' \in Passwords \cup {NoPassword}
                  /\ UNCHANGED <<store, mortal, client>>

Next == \/ \E c \in Clients : Join(c) \/ Call(c) \/ Do(c) \/ Deliver(c) \/ Ignore(c) \/ Leave(c)
        \/ Expire
        \/ ChangePassword

Spec == Init /\ [][Next]_vars
=============================================================================
