-------------------------- MODULE MCNpcConversation --------------------------
\* Values for model checking NpcConversation.
EXTENDS NpcConversation, TLC

Says(tells) == [says |-> TRUE, asks |-> FALSE, tells |-> tells]

\* A pass; words with a fact; words, a request and a fact; a silent piece
\* of knowledge.
FewProposals ==
  {[says |-> FALSE, asks |-> FALSE, tells |-> "none"],
   Says("fact"),
   [says |-> TRUE, asks |-> TRUE, tells |-> "fact"],
   [says |-> FALSE, asks |-> FALSE, tells |-> "actor_knowledge"]}

OneProposal == {Says("fact")}

Symmetric == Permutations(Conv)
=============================================================================
