---------------------------- MODULE ConcurrentMap ----------------------------
(***************************************************************************)
(* The promise of the ConcurrentMap interface (src/internal/maps/maps.go): *)
(* a call takes effect on its key in one step between the call and the     *)
(* return, and gives back what it found there; a Range looks at every key  *)
(* once, at moments of its own choosing, and hands what it found to its    *)
(* function, which may call the map again.                                 *)
(*                                                                         *)
(* This is what the other modules take the tables of the state manager to  *)
(* do.                                                                     *)
(***************************************************************************)

CONSTANTS
    Keys,
    Values,
    Clients,    \* goroutines
    Rangers,    \* those of them that iterate over the map
    Requests,   \* the calls that they make
    Absent      \* no value, no request, no reply

VARIABLES
    contents,   \* key -> its value
    request,    \* client -> the call it is in
    status,     \* client -> "idle", "called" or "done"
    reply,      \* client -> what its call has found
    ranging,    \* the clients that are in a Range
    looked,     \* client -> the keys its Range has looked at
    found,      \* client -> what it found and has yet to hand over
    visiting    \* the clients whose Range is in a call of its function

iteration == <<ranging, looked, found, visiting>>
vars == <<contents, request, status, reply, iteration>>

Slots == Values \union {Absent}

\* The value that a call leaves at its key, when it finds one there.
After(r, value) ==
    CASE r.op = "Load" -> value
      [] r.op = "Store" -> r.arg
      [] r.op \in {"Delete", "LoadAndDelete"} -> Absent
      [] r.op = "LoadOrStore" -> IF value = Absent THEN r.arg ELSE value
      [] r.op = "Update" -> r.arg[value]

\* What it tells its caller, or the caller's function.
Reply(r, value) == IF r.op \in {"Store", "Delete"} THEN Absent ELSE value

Init ==
    /\ contents = [k \in Keys |-> Absent]
    /\ request = [c \in Clients |-> Absent]
    /\ status = [c \in Clients |-> "idle"]
    /\ reply = [c \in Clients |-> Absent]
    /\ ranging = {} /\ visiting = {}
    /\ looked = [c \in Clients |-> {}]
    /\ found = [c \in Clients |-> {}]

\* Also from within the function of the client's own Range.
Call(c, r) ==
    /\ status[c] = "idle" /\ (c \in ranging => c \in visiting)
    /\ status' = [status EXCEPT ![c] = "called"]
    /\ request' = [request EXCEPT ![c] = r]
    /\ UNCHANGED <<contents, reply, iteration>>

TakeEffect(c) ==
    /\ status[c] = "called"
    /\ LET r == request[c]
       IN  /\ contents' = [contents EXCEPT ![r.key] = After(r, @)]
           /\ reply' = [reply EXCEPT ![c] = Reply(r, contents[r.key])]
    /\ status' = [status EXCEPT ![c] = "done"]
    /\ UNCHANGED <<request, iteration>>

Return(c) ==
    /\ status[c] = "done"
    /\ status' = [status EXCEPT ![c] = "idle"]
    /\ request' = [request EXCEPT ![c] = Absent]
    /\ reply' = [reply EXCEPT ![c] = Absent]
    /\ UNCHANGED <<contents, iteration>>

BeginRange(c) ==
    /\ status[c] = "idle" /\ c \notin ranging
    /\ ranging' = ranging \union {c}
    /\ UNCHANGED <<contents, request, status, reply, looked, found, visiting>>

\* At some of the keys that it has not yet looked at, together.
Look(c, ks) ==
    /\ c \in ranging \ visiting /\ ks \subseteq Keys \ looked[c]
    /\ looked' = [looked EXCEPT ![c] = @ \union ks]
    /\ found' = [found EXCEPT ![c] = @ \union
            {<<k, contents[k]>> : k \in {j \in ks : contents[j] # Absent}}]
    /\ UNCHANGED <<contents, request, status, reply, ranging, visiting>>

\* Each pair goes to the function once.
Visit(c, pair) ==
    /\ c \in ranging \ visiting /\ pair \in found[c]
    /\ found' = [found EXCEPT ![c] = @ \ {pair}]
    /\ visiting' = visiting \union {c}
    /\ UNCHANGED <<contents, request, status, reply, ranging, looked>>

\* The function asks for more.
Continue(c) ==
    /\ status[c] = "idle" /\ c \in visiting
    /\ visiting' = visiting \ {c}
    /\ UNCHANGED <<contents, request, status, reply, ranging, looked, found>>

\* The Range is over when the function wants no more, or when every key was
\* looked at and handed over.
EndRange(c) ==
    /\ status[c] = "idle" /\ c \in ranging
    /\ c \in visiting \/ (looked[c] = Keys /\ found[c] = {})
    /\ ranging' = ranging \ {c} /\ visiting' = visiting \ {c}
    /\ looked' = [looked EXCEPT ![c] = {}]
    /\ found' = [found EXCEPT ![c] = {}]
    /\ UNCHANGED <<contents, request, status, reply>>

Next ==
    \/ \E c \in Clients :
        \/ \E r \in Requests : Call(c, r)
        \/ TakeEffect(c) \/ Return(c)
    \/ \E c \in Rangers :
        \/ BeginRange(c) \/ Continue(c) \/ EndRange(c)
        \/ \E ks \in SUBSET Keys : Look(c, ks)
        \/ \E pair \in found[c] : Visit(c, pair)

Spec == Init /\ [][Next]_vars
=============================================================================
