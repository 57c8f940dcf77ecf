----------------------------- MODULE TokenSource -----------------------------
(***************************************************************************)
(* The persisting token source and the token file (internal/sdm/auth.go).  *)
(* Every command asks it for an access token.  oauth2's source, which it   *)
(* wraps, keeps one token and refreshes it once it has expired, under the  *)
(* context the process was started with; a token that was not saved last   *)
(* is written to a temporary file, which then replaces the token file.     *)
(*                                                                         *)
(* One call is under way at a time: commands run in the scheduler's slot,  *)
(* and RunServe makes one token source.  So p.mu and f.mu are never        *)
(* waited for and are left out.                                            *)
(***************************************************************************)
CONSTANTS
    Tokens,     \* access tokens; one that nobody holds any more is issued again
    NoToken     \* no token; also the empty persistingTokenSource.last

ASSUME TokensAssumption == Tokens # {} /\ NoToken \notin Tokens

VARIABLES
    cancelled,  \* the context of the process is done
    memory,     \* the token oauth2's source holds
    expired,    \* it has expired
    last,       \* persistingTokenSource.last
    file,       \* the token in the token file
    temp,       \* the token in the temporary file that is being written
    call,       \* Token(): none, inner, save, rename, ok or failed
    trouble     \* history: Google, its token server or the disk failed

tokenVars == <<memory, expired, last, file, temp, call>>
sourceVars == <<cancelled, tokenVars, trouble>>

Ask ==
    /\ call = "none"
    /\ call' = "inner"
    /\ UNCHANGED <<cancelled, memory, expired, last, file, temp, trouble>>

\* What follows inner.Token with token t.
Obtained(t) == call' = IF t = last THEN "ok" ELSE "save"

StillValid ==
    /\ call = "inner" /\ ~expired
    /\ Obtained(memory)
    /\ UNCHANGED <<cancelled, memory, expired, last, file, temp, trouble>>

\* The refresh is a request under the context NewTokenSource was given.
MayRefresh == ~cancelled

Refresh ==
    /\ call = "inner" /\ expired /\ MayRefresh
    /\ Tokens \ {memory, last, file} # {}
    /\ memory' = CHOOSE t \in Tokens : t \notin {memory, last, file}
    /\ Obtained(memory')
    /\ expired' = FALSE
    /\ UNCHANGED <<cancelled, last, file, temp, trouble>>

RefreshFails ==
    /\ call = "inner" /\ expired
    /\ call' = "failed"
    /\ trouble' = (trouble \/ MayRefresh)
    /\ UNCHANGED <<cancelled, memory, expired, last, file, temp>>

\* Save up to the rename: the token file is not touched.
WriteTemp ==
    /\ call = "save"
    /\ \/ temp' = memory /\ call' = "rename" /\ UNCHANGED trouble
       \/ temp' = NoToken /\ call' = "failed" /\ trouble' = TRUE
    /\ UNCHANGED <<cancelled, memory, expired, last, file>>

\* Mutant of Remembered: last is set whether or not Save succeeds.
RememberedAlways(saved) == memory

\* persistingTokenSource.last after Save.
Remembered(saved) == IF saved THEN memory ELSE last

Rename ==
    /\ call = "rename"
    /\ temp' = NoToken
    /\ \/ file' = temp /\ last' = Remembered(TRUE) /\ call' = "ok" /\ UNCHANGED trouble
       \/ last' = Remembered(FALSE) /\ call' = "failed" /\ trouble' = TRUE
          /\ UNCHANGED file
    /\ UNCHANGED <<cancelled, memory, expired>>

Expire ==
    /\ ~expired /\ call \in {"none", "inner"}
    /\ expired' = TRUE
    /\ UNCHANGED <<cancelled, memory, last, file, temp, call, trouble>>

Cancel ==
    /\ ~cancelled
    /\ cancelled' = TRUE
    /\ UNCHANGED <<tokenVars, trouble>>

\* NewTokenSource loads the file; a token written half stays behind unused.
Load ==
    /\ memory' = file
    /\ expired' \in BOOLEAN
    /\ last' = NoToken /\ temp' = NoToken
    /\ call' = "none"
    /\ UNCHANGED file

SourceInit ==
    /\ cancelled = FALSE
    /\ file = CHOOSE t \in Tokens : TRUE
    /\ memory = file
    /\ expired \in BOOLEAN
    /\ last = NoToken /\ temp = NoToken
    /\ call = "none" /\ trouble = FALSE

\* The steps of a call of Token.
Obtain == StillValid \/ Refresh \/ RefreshFails \/ WriteTemp \/ Rename
=============================================================================
