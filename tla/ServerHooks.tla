---------------------------- MODULE ServerHooks ----------------------------
(***************************************************************************)
(* What a ChanneledServer promises to the class that implements its hooks: *)
(* one hook runs at a time; a client is first announced by the connect     *)
(* hook, then its messages are delivered, and at most one disconnect or    *)
(* error hook ends its life, after which it is never heard of again.       *)
(* There are no sockets, no polls and no server states here; Server.tla    *)
(* implements this specification.                                          *)
(***************************************************************************)
CONSTANTS Conns,        \* the connection objects
          NULL          \* no connection

VARIABLES phase,        \* what the user has been told of each connection
          hook          \* the hook that is running, with its argument

vars == <<phase, hook>>

NoHook == [name |-> "none", client |-> NULL]

\* Hooks that are not about a client.
ServerHookNames == {"server_error", "server_disconnect", "poll_timeout"}

Init == 
    /\ phase = [c \in Conns |-> "absent"]
    /\ hook = NoHook

\* What the user was told, except that any connection may be forgotten when
\* the last reference to it goes; the object may be made anew later.  The
\* argument of the running hook is never forgotten.
Told(ph) == 
    /\ phase' \in [Conns -> {"absent", "served", "gone"}]
    /\ \A c \in Conns : phase'[c] = ph[c] \/ (phase'[c] = "absent" /\ c # hook'.client)

Call(name, c) == hook = NoHook /\ hook' = [name |-> name, client |-> c]

Connect(c) == 
    /\ Call("connect", c)
    /\ phase[c] = "absent"
    /\ Told([phase EXCEPT ![c] = "served"])

Message(c) == 
    /\ Call("message", c)
    /\ phase[c] = "served"
    /\ Told(phase)

Gone(c) == 
    /\ Call("disconnect", c) \/ Call("error", c)
    /\ phase[c] = "served"
    /\ Told([phase EXCEPT ![c] = "gone"])

Other == 
    /\ \E name \in ServerHookNames : Call(name, NULL)
    /\ Told(phase)

Return == hook' = NoHook /\ Told(phase)

Forget == UNCHANGED hook /\ Told(phase)

Next == 
    \/ \E c \in Conns : Connect(c) \/ Message(c) \/ Gone(c)
    \/ Other \/ Return \/ Forget

Spec == Init /\ [][Next]_vars
=============================================================================
