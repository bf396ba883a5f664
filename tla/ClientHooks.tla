---------------------------- MODULE ClientHooks ----------------------------
(***************************************************************************)
(* What a ChanneledClient promises to the class that implements its hooks: *)
(* while it is connected, messages of the current connection; once a       *)
(* disconnect or error hook has run, never a message again until the user  *)
(* connects anew; nothing while it is not connected.  There are no         *)
(* sockets and no polls here; Client.tla implements this specification.    *)
(***************************************************************************)
CONSTANTS Conns,        \* the connection objects
          NULL          \* no connection

VARIABLES current,      \* the connection the client has, or NULL
          gone,         \* whether a hook has told the user it is gone
          hook          \* the hook that is running

vars == <<current, gone, hook>>

NoHook == [name |-> "none", client |-> NULL]

Init == current = NULL /\ gone = FALSE /\ hook = NoHook

Connect == 
    /\ current = NULL /\ current' \in Conns
    /\ gone' = FALSE /\ UNCHANGED hook

Disconnect == current' = NULL /\ gone' = FALSE /\ UNCHANGED hook

\* A hook runs while the client is connected, one at a time.
Call(name, c) == 
    /\ current # NULL /\ UNCHANGED current
    /\ hook = NoHook /\ hook' = [name |-> name, client |-> c]

Message == Call("message", current) /\ ~ gone /\ UNCHANGED gone

Gone == (Call("disconnect", current) \/ Call("error", current)) /\ gone' = TRUE

Timeout == Call("poll_timeout", NULL) /\ UNCHANGED gone

Return == hook' = NoHook /\ UNCHANGED <<current, gone>>

Next == Connect \/ Disconnect \/ Message \/ Gone \/ Timeout \/ Return

Spec == Init /\ [][Next]_vars
=============================================================================
