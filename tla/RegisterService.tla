--------------------------- MODULE RegisterService ---------------------------
(***************************************************************************)
(* What the port promises the records: a register of its own behaves as if *)
(* every read and every write took effect at one instant between its call  *)
(* and its return, and a clear as if at two, with nobody reaching          *)
(* manual_Clear between them.  Nothing is promised of the registers that   *)
(* others change, nor without a board.  There is no library, no lock, no   *)
(* poller and no callback here: LlrfPort implements this specification     *)
(* with them.                                                              *)
(***************************************************************************)
EXTENDS Integers

CONSTANTS Clients,      \* who calls
          Requests,     \* what they may ask: [op, param, arg]
          NoRequest,
          Params,       \* parameters whose register is theirs alone
          Clear,
          ToRaw(_, _),  \* the word a value of a parameter becomes
          ToEng(_, _)   \* the value a word of a parameter stands for

VARIABLES
    open,       \* there is a board
    word,       \* the word of each register
    phase,      \* per client: "idle", "asked", "holding" or "answered"
    request,    \* ... what it asked
    reply       \* ... the value it was answered, 0 without an answer

vars == <<open, word, phase, request, reply>>

AllIdle(ph, rq, rp) ==
    /\ ph = [c \in Clients |-> "idle"]
    /\ rq = [c \in Clients |-> NoRequest]
    /\ rp = [c \in Clients |-> 0]

Init ==
    /\ open \in BOOLEAN
    /\ word \in [Params -> Int]
    /\ AllIdle(phase, request, reply)

-----------------------------------------------------------------------------
Move(c, from, to) ==
    /\ phase[c] = from
    /\ phase' = [phase EXCEPT ![c] = to]

Put(p, w) == word' = IF open /\ p \in Params THEN [word EXCEPT ![p] = w] ELSE word

(* Nobody reaches manual_Clear while a clear is under way. *)
Free(p) == p = Clear => \A c \in Clients : phase[c] # "holding"

IsClear(r) == r.op = "write" /\ r.param = Clear /\ r.arg = 1

-----------------------------------------------------------------------------
Ask(c) ==
    /\ Move(c, "idle", "asked")
    /\ \E r \in Requests : request' = [request EXCEPT ![c] = r]
    /\ UNCHANGED <<open, word, reply>>

Read(c) ==
    LET p == request[c].param
    IN  /\ Move(c, "asked", "answered")
        /\ request[c].op = "read"
        /\ Free(p)
        /\ (open /\ p \in Params) => reply'[c] = ToEng(p, word[p])
        /\ \A d \in Clients \ {c} : reply'[d] = reply[d]
        /\ UNCHANGED <<open, word, request>>

Write(c) ==
    LET p == request[c].param
    IN  /\ Move(c, "asked", "answered")
        /\ request[c].op = "write"
        /\ ~IsClear(request[c])
        /\ Free(p)
        /\ Put(p, ToRaw(p, request[c].arg))
        /\ UNCHANGED <<open, request, reply>>

Hold(c) ==
    /\ Move(c, "asked", "holding")
    /\ IsClear(request[c])
    /\ Free(Clear)
    /\ Put(Clear, 1)
    /\ UNCHANGED <<open, request, reply>>

Release(c) ==
    /\ Move(c, "holding", "answered")
    /\ Put(Clear, 0)
    /\ UNCHANGED <<open, request, reply>>

Answer(c) ==
    /\ Move(c, "answered", "idle")
    /\ request' = [request EXCEPT ![c] = NoRequest]
    /\ reply' = [reply EXCEPT ![c] = 0]
    /\ UNCHANGED <<open, word>>

(* A restart forgets the calls, those under way included, and keeps the     *)
(* words; the board may come or go with it.                                 *)
Restart ==
    /\ open' \in BOOLEAN
    /\ AllIdle(phase', request', reply')
    /\ UNCHANGED word

Next == \/ \E c \in Clients : \/ Ask(c) \/ Read(c) \/ Write(c)
                              \/ Hold(c) \/ Release(c) \/ Answer(c)
        \/ Restart

Spec == Init /\ [][Next]_vars
=============================================================================
