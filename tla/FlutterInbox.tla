----------------------------- MODULE FlutterInbox -----------------------------
(***************************************************************************)
(* The Flutter client of the realtime inbox (main.dart) and the stream it  *)
(* follows.                                                                *)
(*                                                                         *)
(* It asks for the list, and then, with the largest id of what is          *)
(* displayed as its cursor, for the stream; it never asks for the counts.  *)
(* Unlike a browser's EventSource its loop opens the stream again after    *)
(* every failure except a 401.  A list that arrives replaces what is       *)
(* displayed.  (The list is limited to 100 deliveries, which no instance   *)
(* has.)                                                                   *)
(***************************************************************************)
EXTENDS InboxStream

CONSTANT MaxTurns   \* bound: requests failed, connections lost, lists the
                    \* user asks for, alone or after an action

ASSUME TurnAssumption == MaxTurns \in Nat

VARIABLES
    client,   \* the client
    turns     \* how much of the bound is used

vars == <<serverVars, client, turns>>

(* at: loading the first list, in the loop of stream(), or out of it.      *)
(* conn is the loop's connection and cursor its afterId, which it was      *)
(* started with as start.  pages are the lists on their way; got is        *)
(* history: the notes that were ever displayed.                            *)
Init ==
    /\ ServerInit
    /\ client = [at |-> "loading", conn |-> "none", cursor |-> NoCursor,
                 start |-> NoCursor, pages |-> {},
                 inbox |-> <<>>, got |-> {}]
    /\ turns = 0

Turn == turns < MaxTurns /\ turns' = turns + 1

-----------------------------------------------------------------------------
(* The list *)

Listed == [i \in Mine |-> rows[i].note]
Notes(shown) == {shown[i] : i \in DOMAIN shown}

Displaying(shown) == [client EXCEPT !.inbox = shown, !.got = @ \cup Notes(shown)]

(* _startStream: the cursor is the largest id displayed, if there is one. *)
Started(c) ==
    LET latest == IF c.inbox = <<>> THEN NoCursor ELSE MaxId(DOMAIN c.inbox)
    IN  [c EXCEPT !.at = "streaming", !.conn = "trying",
                  !.cursor = latest, !.start = latest]

(* The server answers the first list, or one that the user asks for later. *)
(* (One of those that fails only leaves a message.)                        *)
ReadFirstList ==
    /\ session = "active"
    /\ client.at = "loading" /\ client.pages = {}
    /\ client' = [client EXCEPT !.pages = {Listed}]
    /\ UNCHANGED <<serverVars, turns>>

Refresh ==
    /\ session = "active"
    /\ client.at # "loading"
    /\ Turn
    /\ client' = [client EXCEPT !.pages = @ \cup {Listed}]
    /\ UNCHANGED serverVars

(* Its answer arrives; after the first one the stream is started. *)
ShowList ==
    \E page \in client.pages :
        LET shown == [Displaying(page) EXCEPT !.pages = @ \ {page}]
        IN  /\ client' = IF client.at = "loading" THEN Started(shown) ELSE shown
            /\ UNCHANGED <<serverVars, turns>>

(* The first list fails, whatever the reason: the stream is started all    *)
(* the same.                                                               *)
FirstListFails ==
    /\ client.at = "loading"
    /\ (session = "revoked" /\ UNCHANGED turns) \/ Turn
    /\ client' = Started([client EXCEPT !.pages = {}])
    /\ UNCHANGED serverVars

(* _deleteDelivery *)
Remove(id) ==
    /\ session = "active"
    /\ id \in Mine
    /\ Delete(id)
    /\ client' = [client EXCEPT !.inbox = Without(@, id)]
    /\ UNCHANGED turns

-----------------------------------------------------------------------------
(* The loop of stream() *)

Looping(conn) == client.at = "streaming" /\ client.conn = conn

(* Mutant of Connect: every answer but 200 ends the loop. *)
ConnectOnce ==
    /\ Looping("trying")
    /\ \/ /\ session = "active"
          /\ client' = [client EXCEPT !.conn = "open"]
          /\ stream' = Opened(client.cursor)
          /\ UNCHANGED turns
       \/ /\ (session = "revoked" /\ UNCHANGED turns) \/ Turn
          /\ client' = [client EXCEPT !.at = "ended", !.conn = "none"]
          /\ UNCHANGED stream
    /\ UNCHANGED <<dbVars, session, wire, count, late>>

(* A 401 ends the loop; after another failure it comes round again. *)
Connect ==
    /\ Looping("trying")
    /\ \/ /\ session = "active"
          /\ client' = [client EXCEPT !.conn = "open"]
          /\ stream' = Opened(client.cursor)
          /\ UNCHANGED turns
       \/ /\ session = "revoked"
          /\ client' = [client EXCEPT !.at = "ended", !.conn = "none"]
          /\ UNCHANGED <<stream, turns>>
       \/ /\ Turn
          /\ UNCHANGED <<client, stream>>
    /\ UNCHANGED <<dbVars, session, wire, count, late>>

(* Only inbox events matter; a delivery is displayed before all others. *)
Receive ==
    /\ Looping("open") /\ wire # <<>>
    /\ wire' = Tail(wire)
    /\ LET e == Head(wire)
       IN  client' = IF e.kind # "inbox" THEN client
                     ELSE [Displaying([i \in {e.id} \cup DOMAIN client.inbox |->
                                          IF i = e.id THEN e.note ELSE client.inbox[i]])
                           EXCEPT !.cursor = e.id]
    /\ UNCHANGED <<dbVars, session, stream, count, late, turns>>

(* The response ends, or the connection breaks. *)
EndOfStream ==
    /\ Looping("open") /\ stream.at = "none" /\ wire = <<>>
    /\ client' = [client EXCEPT !.conn = "trying"]
    /\ UNCHANGED <<serverVars, turns>>

Drop ==
    /\ Looping("open") /\ Turn
    /\ client' = [client EXCEPT !.conn = "trying"]
    /\ stream' = Idle /\ wire' = <<>>
    /\ UNCHANGED <<dbVars, session, count, late>>

-----------------------------------------------------------------------------
Client ==
    ReadFirstList \/ ShowList \/ FirstListFails \/ Connect \/ Receive \/ EndOfStream

Next ==
    \/ (TableChanges \/ Generator) /\ UNCHANGED <<client, turns>>
    \/ Client
    \/ Refresh
    \/ \E id \in DOMAIN client.inbox : Remove(id)
    \/ Drop

Spec == Init /\ [][Next]_vars

(* The event loop goes on, and so does the client's: it waits for nothing  *)
(* but an answer or three seconds.                                         *)
FairSpec ==
    Spec /\ WF_vars(Generator /\ UNCHANGED <<client, turns>>) /\ WF_vars(Client)

-----------------------------------------------------------------------------
(* A delivery is got when it was displayed; one whose row got an id that   *)
(* had been used before may stay below the cursor for ever.                *)
Got(i) == rows[i].note \in client.got \cup reused

(* A client whose stream was started with a cursor, because its first list *)
(* had a delivery, has got every delivery at or below its cursor, whatever *)
(* was published while its list was under way or its connection broken.    *)
NothingIsMissed ==
    client.start # NoCursor => \A i \in Mine : i <= client.cursor => Got(i)

(* And in the end it has got all others, if the session does not end: its  *)
(* loop outlasts every failure (stream, main.dart:246).                    *)
EveryDeliveryIsGot ==
    <>[](client.start = NoCursor \/ session = "revoked" \/ \A i \in Mine : Got(i))
==============================================================================
