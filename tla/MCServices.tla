----------------------------- MODULE MCServices ------------------------------
(***************************************************************************)
(* What must never happen, one part at a time: the precedence of drafts,   *)
(* the cutting of their texts, the answers kept during rebuilds, the gaps  *)
(* and the drafts made of them, the originals and their retention, the     *)
(* accounts with their sessions and keys, the caches of the MCP server,    *)
(* the rate limits of its callers, and the snapshots of the system.        *)
(* `part` is chosen at the start; the variables of the other parts rest in *)
(* one initial state.                                                      *)
(***************************************************************************)
EXTENDS MCPrecedence, Chunker, AnswerCache, LearningGaps, Retention, Accounts, McpAccess,
        RateLimiter, Backup

CONSTANTS A, B, anna, piotr, sid1, sid2

VARIABLE part

Parts ==
    {"precedence", "chunker", "answers", "gaps", "retention", "accounts", "mcp", "rates",
     "backup"}

ServicesInit ==
    /\ part \in Parts
    /\ PrecedenceInit
    /\ part # "precedence" =>
          /\ refOf = [d \in Drafts |-> NoRef] /\ promotedAt = [d \in Drafts |-> 1]
          /\ supersedesOf = [d \in Drafts |-> P!NoDraft]
    /\ part # "chunker" => document = <<>>
    /\ ChunkerInit
    /\ AnswerInit /\ GapsInit /\ RetentionInit /\ AccountsInit /\ McpInit
    /\ RatesInit /\ BackupInit

ServicesNext ==
    /\ UNCHANGED part
    /\ \/ /\ part = "precedence" /\ PrecedenceNext
          /\ UNCHANGED <<chunkerVars, answerVars, gapVars, retentionVars,
                         accountVars, mcpVars, rateVars, backupVars>>
       \/ /\ part = "chunker" /\ ChunkerNext
          /\ UNCHANGED <<precedenceVars, answerVars, gapVars, retentionVars,
                         accountVars, mcpVars, rateVars, backupVars>>
       \/ /\ part = "answers" /\ AnswerNext
          /\ UNCHANGED <<precedenceVars, chunkerVars, gapVars, retentionVars,
                         accountVars, mcpVars, rateVars, backupVars>>
       \/ /\ part = "gaps" /\ GapsNext
          /\ UNCHANGED <<precedenceVars, chunkerVars, answerVars, retentionVars,
                         accountVars, mcpVars, rateVars, backupVars>>
       \/ /\ part = "retention" /\ RetentionNext
          /\ UNCHANGED <<precedenceVars, chunkerVars, answerVars, gapVars,
                         accountVars, mcpVars, rateVars, backupVars>>
       \/ /\ part = "accounts" /\ AccountsNext
          /\ UNCHANGED <<precedenceVars, chunkerVars, answerVars, gapVars,
                         retentionVars, mcpVars, rateVars, backupVars>>
       \/ /\ part = "mcp" /\ McpNext
          /\ UNCHANGED <<precedenceVars, chunkerVars, answerVars, gapVars,
                         retentionVars, accountVars, rateVars, backupVars>>
       \/ /\ part = "rates" /\ RatesNext
          /\ UNCHANGED <<precedenceVars, chunkerVars, answerVars, gapVars,
                         retentionVars, accountVars, mcpVars, backupVars>>
       \/ /\ part = "backup" /\ BackupNext
          /\ UNCHANGED <<precedenceVars, chunkerVars, answerVars, gapVars,
                         retentionVars, accountVars, mcpVars, rateVars>>

ServicesSpec ==
    ServicesInit /\ [][ServicesNext]_<<part, precedenceVars, chunkerVars, answerVars, gapVars,
                                       retentionVars, accountVars, mcpVars, rateVars, backupVars>>

\* Names of bases, people and sessions are interchangeable.
Interchangeable == Permutations({A, B}) \cup Permutations({anna, piotr})
                       \cup Permutations({sid1, sid2})

\* The types of the parts.
ServicesTypeOK ==
    /\ AnswerTypeOK /\ GapsTypeOK /\ RetentionTypeOK
    /\ AccountsTypeOK /\ McpTypeOK /\ RatesTypeOK /\ BackupTypeOK

=============================================================================
