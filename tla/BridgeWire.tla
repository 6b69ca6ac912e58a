----------------------------- MODULE BridgeWire -----------------------------
(***************************************************************************)
(* One session of the bridge, message by message: the sequence guard of    *)
(* what the client sends, the chunked upload on disk, apply receipts, the  *)
(* heartbeat, and the tickets with which large revisions are fetched.  The *)
(* client sends new messages, sends old ones again as they were or         *)
(* altered, and leaves gaps.  A replay or a gap ends the session, every    *)
(* other refusal only answers an error.                                    *)
(***************************************************************************)
EXTENDS Integers, Sequences, FiniteSets, SequencesExt

CONSTANTS TransferIds,
          Bytes,         \* what a chunk may hold
          ChunkCount,    \* chunks of a transfer
          Commands, Payloads,
          SeenLimit,     \* messages the guard remembers, 1024
          MaxMissed,     \* heartbeats without a pong, 3
          TicketUses,    \* 3
          MaxBindings,   \* bound on the changes of the binding, its head included
          MaxMessages,   \* bound on what the client sends
          MaxTickets,    \* bound on the tickets issued
          Nothing

ASSUME WireAssumption ==
    /\ {ChunkCount, SeenLimit, MaxMissed, TicketUses} \subseteq Nat \ {0}
    /\ {MaxBindings, MaxMessages, MaxTickets} \subseteq Nat

VARIABLES session,    \* "open", or why it ended
          guard,      \* SequenceGuard: the sequence expected, the ids seen, by age
          handled,    \* the sequence numbers of the messages acted upon, in order
          context,    \* the bridge's binding, as a version
          incoming,   \* TransferManager::upload
          stored,     \* TransferManager::verified
          disk,       \* the transfer directory: partial and verified files
          receipts,   \* SessionRuntime::command_receipts
          published,  \* the ApplyReceipt events of a command
          missed,     \* heartbeats since the last pong
          tickets,    \* DownloadTickets of this session, by issue
          served      \* how often a ticket's bytes were sent

transfer == <<incoming, stored, disk>>
commands == <<receipts, published>>
ticketVars == <<tickets, served>>
rest == <<context, missed, ticketVars>>
wireVars == <<session, guard, handled, context, transfer, commands, missed, ticketVars>>

Slots == 1 .. ChunkCount
Contents == [Slots -> Bytes]
Blank == [i \in Slots |-> Nothing]
NoFiles == [t \in TransferIds |-> Nothing]

-----------------------------------------------------------------------------
(***************************************************************************)
(* SequenceGuard::check                                                    *)
(***************************************************************************)

Seen(id) == \E i \in DOMAIN guard.order : guard.order[i] = id

\* Mutant: a sequence number that was already used is no gap.
VerdictBackwards(id, seq, same) ==
    CASE Seen(id) /\ same /\ seq < guard.expected -> "duplicate"
      [] Seen(id) /\ ~(same /\ seq < guard.expected) -> "replay"
      [] ~Seen(id) /\ seq > guard.expected -> "gap"
      [] OTHER -> "new"

\* The verdict on a message; same: it is, byte for byte, the one seen under its id.
Verdict(id, seq, same) ==
    CASE Seen(id) /\ same /\ seq < guard.expected -> "duplicate"
      [] Seen(id) /\ ~(same /\ seq < guard.expected) -> "replay"
      [] ~Seen(id) /\ seq # guard.expected -> "gap"
      [] OTHER -> "new"

Remember(id) ==
    LET all == Append(guard.order, id)
    IN  guard' = [expected |-> guard.expected + 1,
                  order |-> IF Len(all) > SeenLimit THEN Tail(all) ELSE all]

End(why) ==
    /\ session' = why
    /\ incoming' = Nothing
    /\ disk' = IF incoming = Nothing THEN disk ELSE [disk EXCEPT !.partial[incoming.id] = Nothing]
    /\ tickets' = [i \in DOMAIN tickets |-> [tickets[i] EXCEPT !.live = FALSE]]

\* A duplicate is acknowledged and not looked at again.
Duplicate(id) ==
    /\ session = "open" /\ Verdict(id, id, TRUE) = "duplicate"
    /\ UNCHANGED wireVars

Violation(id, seq, same) ==
    /\ session = "open"
    /\ Verdict(id, seq, same) \in {"replay", "gap"}
    /\ End(Verdict(id, seq, same))
    /\ UNCHANGED <<guard, handled, context, stored, commands, missed, served>>

\* The handlers below are those of a message the guard lets through.
Accept(id, seq, same) ==
    /\ session = "open"
    /\ Verdict(id, seq, same) = "new"
    /\ Remember(id)
    /\ handled' = Append(handled, seq)

-----------------------------------------------------------------------------
(***************************************************************************)
(* process_envelope                                                        *)
(***************************************************************************)

\* A message of no consequence here: one that is refused, an event, a hello.
Plain == UNCHANGED <<session, rest, transfer, commands>>

Pong == missed' = 0 /\ UNCHANGED <<session, context, ticketVars, transfer, commands>>

\* The file of a transfer is created for it, or the offer fails.
OfferTransfer(t, content) ==
    /\ incoming = Nothing
    /\ disk.partial[t] = Nothing
    /\ incoming' = [id |-> t, content |-> content, context |-> context, received |-> {}]
    /\ disk' = [disk EXCEPT !.partial[t] = Blank]
    /\ UNCHANGED <<session, rest, stored, commands>>

\* require_context: the binding must be the transfer's, its accepted head included.
InContext(t) ==
    IF incoming # Nothing /\ incoming.id = t THEN incoming.context = context
    ELSE stored[t] # Nothing /\ stored[t].context = context

ReceiveChunk(t, i, data) ==
    /\ incoming # Nothing /\ incoming.id = t /\ InContext(t)
    /\ i \notin incoming.received
    /\ incoming' = [incoming EXCEPT !.received = @ \cup {i}]
    /\ disk' = [disk EXCEPT !.partial[t][i] = data]
    /\ UNCHANGED <<session, rest, stored, commands>>

\* A chunk again: acknowledged as it was, a replay when it differs.
ReceiveChunkAgain(t, i, data) ==
    /\ incoming # Nothing /\ incoming.id = t /\ InContext(t)
    /\ i \in incoming.received
    /\ IF data = disk.partial[t][i] THEN Plain
       ELSE End("replay") /\ UNCHANGED <<context, missed, served, stored, commands>>

\* Mutant: what was verified before is verified anew.
CompleteTransferAfresh(t) ==
    /\ incoming # Nothing /\ incoming.id = t /\ InContext(t)
    /\ incoming.received = Slots
    /\ incoming' = Nothing
    /\ IF disk.partial[t] = incoming.content
       THEN /\ stored' = [stored EXCEPT ![t] = [content |-> incoming.content, context |-> context]]
            /\ disk' = [partial |-> [disk.partial EXCEPT ![t] = Nothing],
                        stored |-> [disk.stored EXCEPT ![t] = disk.partial[t]]]
       ELSE /\ disk' = [disk EXCEPT !.partial[t] = Nothing]
            /\ UNCHANGED stored
    /\ UNCHANGED <<session, rest, commands>>

\* complete: a transfer that is verified stays as it is, whatever was offered since.
CompleteTransfer(t) ==
    /\ incoming # Nothing /\ incoming.id = t /\ InContext(t)
    /\ stored[t] = Nothing
    /\ incoming.received = Slots
    /\ incoming' = Nothing
    /\ IF disk.partial[t] = incoming.content
       THEN /\ stored' = [stored EXCEPT ![t] = [content |-> incoming.content, context |-> context]]
            /\ disk' = [partial |-> [disk.partial EXCEPT ![t] = Nothing],
                        stored |-> [disk.stored EXCEPT ![t] = disk.partial[t]]]
       ELSE /\ disk' = [disk EXCEPT !.partial[t] = Nothing]
            /\ UNCHANGED stored
    /\ UNCHANGED <<session, rest, commands>>

\* Opening, reading or renaming the file fails: the upload is gone, its file stays.
CompleteFails(t) ==
    /\ incoming # Nothing /\ incoming.id = t /\ InContext(t)
    /\ stored[t] = Nothing
    /\ incoming.received = Slots
    /\ incoming' = Nothing
    /\ UNCHANGED <<session, rest, stored, disk, commands>>

CancelTransfer(t) ==
    /\ incoming # Nothing /\ incoming.id = t
    /\ incoming' = Nothing
    /\ disk' = [disk EXCEPT !.partial[t] = Nothing]
    /\ UNCHANGED <<session, rest, stored, commands>>

\* art.apply.receipt and the outcomes of a command.
Receipt(c, payload) ==
    IF receipts[c] = Nothing
    THEN /\ receipts' = [receipts EXCEPT ![c] = payload]
         /\ published' = [published EXCEPT ![c] = Append(@, payload)]
         /\ UNCHANGED <<session, rest, transfer>>
    ELSE IF receipts[c] = payload THEN Plain
    ELSE End("replay") /\ UNCHANGED <<context, missed, served, stored, commands>>

Handle ==
    \/ Plain
    \/ Pong
    \/ \E t \in TransferIds :
          \/ \E content \in Contents : OfferTransfer(t, content)
          \/ \E i \in Slots, data \in Bytes : ReceiveChunk(t, i, data) \/ ReceiveChunkAgain(t, i, data)
          \/ CompleteTransfer(t) \/ CompleteFails(t) \/ CancelTransfer(t)
    \/ \E c \in Commands, payload \in Payloads : Receipt(c, payload)

\* What the client sends next: a new message, an old one as it was or altered, or
\* one that leaves a gap.
Messages ==
    {[id |-> guard.expected, seq |-> n, same |-> FALSE] : n \in {guard.expected, guard.expected + 1}}
    \cup {[id |-> n, seq |-> n, same |-> b] : n \in 1 .. guard.expected - 1, b \in BOOLEAN}

Message ==
    /\ guard.expected <= MaxMessages
    /\ \E m \in Messages :
          \/ Violation(m.id, m.seq, m.same)
          \/ Accept(m.id, m.seq, m.same) /\ Handle

-----------------------------------------------------------------------------
(***************************************************************************)
(* The session loop's other work, and the download endpoint                *)
(***************************************************************************)

Heartbeat ==
    /\ session = "open"
    /\ IF missed < MaxMissed
       THEN missed' = missed + 1 /\ UNCHANGED <<session, incoming, disk, tickets>>
       ELSE End("silent") /\ UNCHANGED missed
    /\ UNCHANGED <<guard, handled, context, stored, commands, served>>

LeaveSession ==
    /\ session = "open"
    /\ End("left")
    /\ UNCHANGED <<guard, handled, context, stored, commands, missed, served>>

\* prepare_revision_for_session: a ticket for each cell, before the command is
\* sent; a cell that fails leaves those before it with theirs.
IssueTicket ==
    /\ session = "open" /\ Len(tickets) < MaxTickets
    /\ tickets' = Append(tickets, [uses |-> TicketUses, live |-> TRUE])
    /\ served' = Append(served, 0)
    /\ UNCHANGED <<session, guard, handled, context, transfer, commands, missed>>

\* download_handler, with the ticket's token and session; it needs no session loop.
Download(i) ==
    /\ tickets[i].live
    /\ tickets' = [tickets EXCEPT ![i] = [uses |-> @.uses - 1, live |-> @.uses > 1]]
    /\ served' = [served EXCEPT ![i] = @ + 1]
    /\ UNCHANGED <<session, guard, handled, context, transfer, commands, missed>>

\* Two minutes have passed.
ExpireTicket(i) ==
    /\ tickets[i].live
    /\ tickets' = [tickets EXCEPT ![i].live = FALSE]
    /\ UNCHANGED <<session, guard, handled, context, transfer, commands, missed, served>>

\* set_binding, or a head that moves.
MoveBinding ==
    /\ context < MaxBindings
    /\ context' = context + 1
    /\ UNCHANGED <<session, guard, handled, transfer, commands, missed, ticketVars>>

WireInit ==
    /\ session = "open"
    /\ guard = [expected |-> 1, order |-> <<>>] /\ handled = <<>>
    /\ context = 1
    /\ incoming = Nothing /\ stored = NoFiles
    /\ disk = [partial |-> NoFiles, stored |-> NoFiles]
    /\ receipts = [c \in Commands |-> Nothing] /\ published = [c \in Commands |-> <<>>]
    /\ missed = 0
    /\ tickets = <<>> /\ served = <<>>

WireNext ==
    \/ Message
    \/ \E id \in 1 .. guard.expected : Duplicate(id)
    \/ Heartbeat \/ LeaveSession \/ IssueTicket \/ MoveBinding
    \/ \E i \in DOMAIN tickets : Download(i) \/ ExpireTicket(i)

WireSpec == WireInit /\ [][WireNext]_wireVars

-----------------------------------------------------------------------------
\* SequenceGuard::check (bridge.rs:1306): every message is acted upon once and in the
\* order of its sequence number, one the guard has forgotten included.
HandledOnceInOrder == handled = [i \in 1 .. guard.expected - 1 |-> i]

\* TransferManager::complete (bridge.rs:2357): what was verified under an id is never
\* replaced, neither its record nor its bytes, when the id is offered again.
VerifiedStays ==
    [][\A t \in TransferIds : stored[t] # Nothing =>
          stored'[t] = stored[t] /\ disk'.stored[t] = stored[t].content]_wireVars

=============================================================================
