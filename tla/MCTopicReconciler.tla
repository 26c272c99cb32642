-------------------------- MODULE MCTopicReconciler --------------------------
(* Small instances of TopicReconciler for TLC. *)
EXTENDS TopicReconciler

\* One topic of several partitions and one of a single partition.
TwoTopics == << [topic |-> "events", desired |-> 3], [topic |-> "dlq", desired |-> 1] >>

=============================================================================
