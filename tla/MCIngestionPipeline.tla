--------------------------- MODULE MCIngestionPipeline ---------------------------
(* Instance of IngestionPipeline for TLC: every text and every first page of up  *)
(* to FirstPage tokens, followed by a second page of up to SecondPage or none.   *)
EXTENDS IngestionPipeline, SequencesExt

CONSTANTS FirstPage, SecondPage

MCPages ==
  {<<>>} \cup {<<p>> : p \in SeqOf(BOOLEAN, FirstPage)}
         \cup {<<p, q>> : p \in SeqOf(BOOLEAN, FirstPage), q \in SeqOf(BOOLEAN, SecondPage)}

MCDocuments ==
  {[kind |-> "text", pages |-> <<p>>] : p \in SeqOf(BOOLEAN, FirstPage)}
    \cup {[kind |-> "url", pages |-> ps] : ps \in MCPages}
=============================================================================
