----------------------------- MODULE DurableEvents -----------------------------
(****************************************************************************)
(* What the receiving side promises about the events it stores, with no     *)
(* buffer, no transactions and no processor: the client sees every event in *)
(* turn and applies it to its view at once; parts of the view become durable*)
(* now and then; what is not durable may be lost, and the view then falls   *)
(* back to what is.                                                         *)
(*                                                                          *)
(* A sealed (encrypted) item takes effect at most once, however often the   *)
(* server delivers it.  An update of a message the view does not hold makes *)
(* the record of that message unspecified from then on: such keys are       *)
(* "early" and appear neither in the view nor in the durable records.       *)
(****************************************************************************)
EXTENDS Maps, Naturals, Sequences

VARIABLES
    stream,        \* the items the server has issued: [sealed, batch] each
    messages,      \* the records as the events so far make them, by kind
    contacts,
    receipts,
    keptMessages,  \* the part of them that survives a loss
    keptContacts,
    keptReceipts,
    applied,       \* sealed items that have taken effect
    early          \* keys of messages updated while there was no such message

view == <<messages, contacts, receipts>>
durable == <<keptMessages, keptContacts, keptReceipts>>
vars == <<stream, messages, contacts, receipts,
          keptMessages, keptContacts, keptReceipts, applied, early>>

Overlay(map, new) ==
    [k \in DOMAIN map |-> IF k \in DOMAIN new THEN Over(new[k], map[k]) ELSE map[k]]

Init ==
    /\ stream = << >>
    /\ view = << << >>, << >>, << >> >>
    /\ durable = << << >>, << >>, << >> >>
    /\ applied = {}
    /\ early = {}

Issue ==
    /\ Len(stream') = Len(stream) + 1
    /\ stream = SubSeq(stream', 1, Len(stream))
    /\ UNCHANGED <<applied, early, view, durable>>

\* The item's events, one after the other: messages arrive whole, updates write
\* the fields they carry, deletes remove.
Apply(n) ==
    LET batch == stream[n].batch
        held  == Over(batch.upsert, messages)
    IN  /\ UNCHANGED stream
        /\ stream[n].sealed => n \notin applied
        /\ applied' = IF stream[n].sealed THEN applied \cup {n} ELSE applied
        /\ early' = early \cup (DOMAIN batch.update \ DOMAIN held)
        /\ messages' = Without(Overlay(held, batch.update), batch.delete \cup early')
        /\ contacts' = Over(Overlay(contacts, batch.contacts), batch.contacts)
        /\ receipts' = Over(batch.receipts, receipts)
        /\ keptMessages' = Without(keptMessages, early')
        /\ UNCHANGED <<keptContacts, keptReceipts>>

\* Each kind becomes durable on its own.
Commit ==
    /\ UNCHANGED <<stream, applied, early>>
    /\ \/ keptMessages' = messages /\ UNCHANGED <<keptContacts, keptReceipts>>
       \/ keptContacts' = contacts /\ UNCHANGED <<keptMessages, keptReceipts>>
       \/ keptReceipts' = receipts /\ UNCHANGED <<keptMessages, keptContacts>>
    /\ UNCHANGED view

\* A sealed item may also be opened and its events be lost at once.
Lose ==
    /\ UNCHANGED <<stream, early>>
    /\ applied \subseteq applied'
    /\ applied' \subseteq DOMAIN stream
    /\ UNCHANGED durable
    /\ view' = durable

Next ==
    \/ Issue
    \/ \E n \in DOMAIN stream : Apply(n)
    \/ Commit
    \/ Lose

Spec == Init /\ [][Next]_vars
=============================================================================
