----------------------------- MODULE AbstractPipe -----------------------------
(***************************************************************************)
(* What the pipes promise: bounded FIFO channels that can be closed.  How  *)
(* a transfer is cut into pieces, and who sleeps meanwhile, is left open.  *)
(***************************************************************************)
EXTENDS Naturals, Sequences, SequencesExt

CONSTANTS Pages, Chars, Capacity

VARIABLES
  open,     \* is there a pipe in the page, and not closed?
  content   \* the bytes written and not read yet, oldest first

channelVars == <<open, content>>

Init ==
  /\ open = [g \in Pages |-> FALSE]
  /\ content = [g \in Pages |-> <<>>]

Open(g) ==
  /\ ~open[g]
  /\ open' = [open EXCEPT ![g] = TRUE]
  /\ content' = [content EXCEPT ![g] = <<>>]

\* What is in the channel is lost with it.
Close(G) ==
  /\ open' = [g \in Pages |-> open[g] /\ g \notin G]
  /\ content' = [g \in Pages |-> IF g \in G THEN <<>> ELSE content[g]]

Write(g) ==
  /\ open[g]
  /\ IsStrictPrefix(content[g], content'[g])
  /\ Len(content'[g]) <= Capacity
  /\ content'[g] \in Seq(Chars)
  /\ \A h \in Pages \ {g} : content'[h] = content[h]
  /\ UNCHANGED open

Read(g) ==
  /\ open[g]
  /\ IsStrictSuffix(content'[g], content[g])
  /\ \A h \in Pages \ {g} : content'[h] = content[h]
  /\ UNCHANGED open

Next ==
  \/ \E g \in Pages : Open(g) \/ Write(g) \/ Read(g)
  \/ \E G \in SUBSET Pages : Close(G)

Spec == Init /\ [][Next]_channelVars

=============================================================================
