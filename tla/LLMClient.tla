------------------------------ MODULE LLMClient ------------------------------
(***************************************************************************)
(* One request of llm_client.c, from the POST to what the caller gets: the *)
(* transport of either build (WinHTTP or libcurl), then the parsing of     *)
(* CandidateSet, then the checks the llm_client_get_* functions make.      *)
(* The codec takes for granted that a request gives the model's answer or  *)
(* fails, though the connection is kept between requests and its server    *)
(* may have closed it, a body arrives in pieces, and a buffer grows.       *)
(* libcurl's own reuse of connections is inside the library: curl_post     *)
(* sees one result.                                                        *)
(***************************************************************************)
EXTENDS CandidateSet, FiniteSets

CONSTANTS
  Pieces,           \* pieces a body arrives in
  Garbled,          \* replies that a body with a hole may read as
  MaxFaults,        \* bound: calls of the network that fail
  MaxOutOfMemory    \* bound: failures to grow the buffer

ASSUME ClientAssumption ==
  /\ Pieces \in Nat \ {0}
  /\ Garbled \subseteq Replies /\ <<>> \in Replies
  /\ MaxFaults \in Nat /\ MaxOutOfMemory \in Nat

(* The mark fits into a candidate's buffer, and is stored as some text.    *)
ASSUME MarkAssumption ==
  EowMark \in Text /\ Len(EowMark) \in 1..TextLimit /\ EowText # <<>>

VARIABLES
  backend,   \* "winhttp" or "curl", fixed when the library is built
  conn,      \* hConnect: "none", "live", or "stale" when its socket was closed
  phase,     \* "begin", "reading", "parsing" or "garbled", then "failed" or "answered"
  attempt,   \* calls of winhttp_post_once
  at,        \* pieces of the body that arrived
  got,       \* those that are in the buffer
  spent      \* history: how much of the bounds was used

parsing == <<reply, pos, kept, status, said, covertext, heard>>
client == <<backend, conn, phase, attempt, at, got, spent>>

Fault == /\ spent.faults < MaxFaults
         /\ spent' = [spent EXCEPT !.faults = @ + 1]

NoFault == spent' = spent

(***************************************************************************)
(* WinHTTP: winhttp_post and winhttp_post_once.                            *)
(***************************************************************************)
OpenConn ==
  /\ backend = "winhttp" /\ phase = "begin" /\ conn = "none"
  /\ conn' = "live"
  /\ UNCHANGED <<parsing, backend, phase, attempt, at, got, spent>>

ConnErrorKeeping ==   \* mutant: retried on the connection that failed
  /\ IF attempt = 1 THEN attempt' = 2 /\ UNCHANGED <<conn, phase>>
     ELSE phase' = "failed" /\ UNCHANGED <<conn, attempt>>
  /\ UNCHANGED <<parsing, backend, at, got>>

(* The first time, drop the connection and try again.                      *)
ConnError ==
  /\ IF attempt = 1 THEN attempt' = 2 /\ conn' = "none" /\ UNCHANGED phase
     ELSE phase' = "failed" /\ UNCHANGED <<conn, attempt>>
  /\ UNCHANGED <<parsing, backend, at, got>>

OpenFails ==
  /\ backend = "winhttp" /\ phase = "begin" /\ conn = "none"
  /\ Fault /\ ConnError

(* No response on this connection: for sure if it is stale.                *)
SendFails ==
  /\ backend = "winhttp" /\ phase = "begin" /\ conn # "none"
  /\ IF conn = "stale" THEN NoFault ELSE Fault
  /\ ConnError

(* curl_post makes no second attempt.                                      *)
PerformFails ==
  /\ backend = "curl" /\ phase = "begin"
  /\ Fault
  /\ phase' = "failed"
  /\ UNCHANGED <<parsing, backend, conn, attempt, at, got>>

Send ==
  /\ phase = "begin" /\ (backend = "winhttp" => conn = "live")
  /\ phase' = "reading"
  /\ UNCHANGED <<parsing, backend, conn, attempt, at, got, spent>>

(***************************************************************************)
(* The body, and growbuf_append.                                           *)
(***************************************************************************)
ReadPiece ==
  /\ phase = "reading" /\ at < Pieces
  /\ at' = at + 1 /\ got' = got \cup {at + 1}
  /\ UNCHANGED <<parsing, backend, conn, phase, attempt, spent>>

AppendFailsUnseen ==   \* mutant: curl_write_cb reports the piece as written
  /\ phase = "reading" /\ at < Pieces /\ spent.oom < MaxOutOfMemory
  /\ spent' = [spent EXCEPT !.oom = @ + 1]
  /\ at' = at + 1
  /\ UNCHANGED <<parsing, backend, conn, phase, attempt, got>>

(* libcurl is told and gives up, the other loop does not look.             *)
AppendFails ==
  /\ phase = "reading" /\ at < Pieces /\ spent.oom < MaxOutOfMemory
  /\ spent' = [spent EXCEPT !.oom = @ + 1]
  /\ at' = at + 1
  /\ phase' = IF backend = "curl" THEN "failed" ELSE phase
  /\ UNCHANGED <<parsing, backend, conn, attempt, got>>

(* A buffer that holds nothing is NULL, and no connection error.           *)
BodyEnds == phase' = IF got = {} THEN "failed" ELSE "parsing"

(* The read loop of WinHTTP ends on an error as it does on the end.        *)
ReadFails ==
  /\ phase = "reading" /\ Fault
  /\ IF backend = "curl" THEN phase' = "failed" ELSE BodyEnds
  /\ conn' = IF backend = "curl" THEN conn ELSE "stale"
  /\ UNCHANGED <<parsing, backend, attempt, at, got>>

Whole == got = 1..Pieces

(* The body is there; reply is what is in it.                              *)
ReadAll ==
  /\ phase = "reading" /\ at = Pieces
  /\ BodyEnds
  /\ IF Whole THEN reply' \in Replies ELSE reply' = reply
  /\ UNCHANGED <<pos, kept, status, said, covertext, heard, backend, conn, attempt, at, got, spent>>

(***************************************************************************)
(* The grammar a reply follows inside a word.                              *)
(***************************************************************************)
(* build_continuation_grammar: one syllable or more, with the mark no more *)
(* than was asked for; then the end-of-word mark.  Syllables are letters   *)
(* from a to z, of which neither the mark nor the text it is stored as is  *)
(* one.                                                                    *)
SyllablesOneMore == IF MaxCandidates < 2 THEN 2 ELSE MaxCandidates   \* mutant: the mark comes on top

SyllablesAskedFor == IF MaxCandidates < 2 THEN 1 ELSE MaxCandidates - 1

IsContinuation(r) ==
  LET n == Len(r)
  IN /\ n \in 2..(SyllablesAskedFor + 1)
     /\ r[n].key = EowMark
     /\ \A k \in 1..n : r[k].prob # NotANumber
     /\ \A k \in 1..(n - 1) :
          r[k].key # <<>> /\ Head(r[k].key) \notin {Head(EowMark), Head(EowText)}

(***************************************************************************)
(* Parsing.                                                                *)
(***************************************************************************)
(* An object that is cut off is no JSON; one with a hole may be.           *)
RejectDamaged ==
  /\ phase = "parsing" /\ ~Whole
  /\ Reject
  /\ UNCHANGED client

MissTheHole ==
  /\ phase = "parsing" /\ status = "reading" /\ ~Whole /\ got # 1..Cardinality(got)
  /\ reply' \in Garbled
  /\ phase' = "garbled"
  /\ UNCHANGED <<pos, kept, status, said, covertext, heard, backend, conn, attempt, at, got, spent>>

Parse ==
  /\ (phase = "parsing" /\ Whole) \/ phase = "garbled"
  /\ Reject \/ SkipNotANumber \/ DropConflict \/ Keep \/ Return
  /\ UNCHANGED client

GiveEvenNothing ==   \* mutant: a response without candidates is handed on
  /\ phase \in {"parsing", "garbled"} /\ status # "reading"
  /\ phase' = IF status = "null" THEN "failed" ELSE "answered"
  /\ UNCHANGED <<parsing, backend, conn, attempt, at, got, spent>>

(* A NULL and a response without candidates are the same to the caller.    *)
Give ==
  /\ phase \in {"parsing", "garbled"} /\ status # "reading"
  /\ phase' = IF status = "null" \/ kept = <<>> THEN "failed" ELSE "answered"
  /\ UNCHANGED <<parsing, backend, conn, attempt, at, got, spent>>

Transmit ==
  /\ phase = "answered"
  /\ Say \/ Hear
  /\ UNCHANGED client

(* The connection is as an earlier request left it; the server may have    *)
(* closed it since.                                                        *)
ClientInit ==
  /\ reply = <<>> /\ pos = 0 /\ kept = <<>> /\ status = "reading"
  /\ said = 0 /\ covertext = <<>> /\ heard = 0
  /\ \/ backend = "winhttp" /\ conn \in {"none", "live", "stale"}
     \/ backend = "curl" /\ conn = "none"
  /\ phase = "begin" /\ attempt = 1 /\ at = 0 /\ got = {}
  /\ spent = [faults |-> 0, oom |-> 0]

ClientNext ==
  \/ OpenConn \/ OpenFails \/ SendFails \/ PerformFails \/ Send
  \/ ReadPiece \/ AppendFails \/ ReadFails \/ ReadAll
  \/ RejectDamaged \/ MissTheHole \/ Parse \/ Give \/ Transmit

ClientSpec == ClientInit /\ [][ClientNext]_<<vars, client>>
-----------------------------------------------------------------------------
(* What a caller is given comes from the whole body and is not empty.  The *)
(* exception is a WinHTTP build that could not grow its buffer: the loop   *)
(* ignores that (llm_client.c:197), and the body has a hole.               *)
AnswerIsModels ==
  phase = "answered" =>
    /\ Whole \/ (backend = "winhttp" /\ spent.oom > 0)
    /\ kept # <<>>

(* A server that closes a connection between requests fails none of them   *)
(* (the comment in winhttp_post): a request that fails although every call *)
(* of the network and every allocation worked has got the whole body.      *)
StaleIsForgiven == phase = "failed" /\ spent.faults = 0 /\ spent.oom = 0 => Whole

(* Every step inside a word offers its end, as the comment in the grammar  *)
(* says, or words would grow without bound: neither the limit nor the      *)
(* prefix check ever takes the mark away.                                  *)
WordsCanEnd ==
  phase = "answered" /\ IsContinuation(reply) => \E j \in 1..Len(kept) : kept[j].text = EowText
=============================================================================
