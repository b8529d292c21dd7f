--------------------------- MODULE MCDurableEntry ---------------------------
(* Instances of DurableEntry: the lines that transcripts are made of.        *)
EXTENDS DurableEntry

CONSTANTS m1, m2

M(kind, name) == [kind |-> kind, name |-> name]

\* Prompts, typed-ahead prompts and their pickup, calls and late results,
\* commands and their output, a line that opens two turns, and one that brings a
\* result before it opens a turn.
Mixed ==
    { <<M("UserText", m1)>>,
      <<M("UserText", m1), M("UserText", m2)>>,
      <<M("Enqueue", m1)>>,
      <<M("Dequeue", Nil)>>,
      <<M("ToolUse", m1), M("Attachment", Nil)>>,
      <<M("ToolResult", m1), M("UserText", m2)>>,
      <<M("CommandStdout", Nil)>> }

\* Prompts that wait in the queue across a resume point: a command, which
\* leaves no marker, and a prompt, which leaves one.
Queued ==
    { <<M("UserText", Nil)>>,
      <<M("EnqueueQuiet", m1)>>,
      <<M("Enqueue", m2)>>,
      <<M("Dequeue", Nil)>> }
=============================================================================
