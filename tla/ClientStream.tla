---------------------------- MODULE ClientStream ----------------------------
(***************************************************************************)
(* What a streaming client may be sent, whatever provider stands behind    *)
(* it.  A message begins; items (content blocks, output items, tool calls) *)
(* appear, receive fragments while they are open, and are closed; the      *)
(* message ends once and nothing follows.  Translation shows that the      *)
(* translators of open-sse/translator/response keep to this.               *)
(***************************************************************************)
EXTENDS Naturals, Sequences, SequencesExt

VARIABLES format,   \* the client's wire format; it never changes
          phase,    \* "idle", "begun" or "ended"
          items     \* the items seen: key -> [kind, tool, status, frags]

vars == <<format, phase, items>>

\* Claude and Responses say where a message begins and where an item ends; in
\* the Chat and Antigravity formats the first item begins the message and the
\* end of the message ends every item.
Framed == format \in {"claude", "responses"}

Init == phase = "idle" /\ items = <<>>

Begin == /\ phase = "idle"
         /\ phase' = "begun"
         /\ UNCHANGED <<format, items>>

\* An item appears once, empty, or whole where the format sends it in one piece.
Appear(k) == /\ phase = "begun" \/ (~Framed /\ phase = "idle")
             /\ k \notin DOMAIN items
             /\ DOMAIN items' = DOMAIN items \union {k}
             /\ items'[k].status \in {"open", "closed"}
             /\ \A j \in DOMAIN items : items'[j] = items[j]
             /\ phase' = "begun"
             /\ UNCHANGED format

\* Only an open item grows, and what it already holds stays.
Grow(k) == /\ phase = "begun"
           /\ items[k].status = "open"
           /\ IsPrefix(items[k].frags, items'[k].frags)
           /\ items' = [items EXCEPT ![k].frags = items'[k].frags]
           /\ UNCHANGED <<format, phase>>

\* Closing a tool call may restate its whole input: what was streamed, and more.
Close(k) == /\ phase = "begun"
            /\ items[k].status = "open"
            /\ IsPrefix(items[k].frags, items'[k].frags)
            /\ items' = [items EXCEPT ![k].status = "closed",
                                      ![k].frags = items'[k].frags]
            /\ UNCHANGED <<format, phase>>

\* The end comes once, and in a framed format only after every item's own end.
End == /\ phase \in {"idle", "begun"}
       /\ Framed => \A k \in DOMAIN items : items[k].status = "closed"
       /\ phase' = "ended"
       /\ UNCHANGED <<format, items>>

Next == \/ Begin
        \/ \E k \in DOMAIN items' \ DOMAIN items : Appear(k)
        \/ \E k \in DOMAIN items : Grow(k) \/ Close(k)
        \/ End

Spec == Init /\ [][Next]_vars
=============================================================================
