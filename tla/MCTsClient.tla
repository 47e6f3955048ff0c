---------------------------- MODULE MCTsClient ------------------------------
(* Bounded instance of TsClient for TLC: three concurrent calls, of which two *)
(* have a command timeout.                                                    *)
EXTENDS TsClient

CONSTANTS c1, c2, c3

\* The comment on pending (index.ts:39): "Responses are matched FIFO with sent
\* commands." A chained call that goes out after fail() emptied the queue takes
\* the late answer of a command that was sent before.
AnswersMatchCommands ==
    \A c \in Commands : call[c] = "resolved" => got[c] = c
============================================================================
