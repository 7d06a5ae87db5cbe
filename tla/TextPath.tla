------------------------------ MODULE TextPath ------------------------------
(***************************************************************************)
(* The way of a text through Chronolog: a line is parsed                    *)
(* (ingestion/parser.go), tokenized (pipeline/tokenizer.go) and stored, a   *)
(* query of the query bar is parsed (web/src/lib/queryParser.js), its term  *)
(* is looked up, and the client normalizes what comes back and filters it   *)
(* by the query's labels.                                                   *)
(*                                                                          *)
(* A line is a PRI and a sequence of words with one space between them; of  *)
(* a word the model knows its length, and the fields of letters and digits  *)
(* it falls into.  No word starts with a bracket or another PRI.            *)
(***************************************************************************)
EXTENDS Integers, Sequences

CONSTANTS
  Words, LengthOf, FieldsOf,  \* words, and what FieldsFunc makes of them
  Fields, SizeOf, LowerOf,    \* fields, their size in bytes, and ToLower
  Lines,                      \* the lines that may be ingested
  Queries,                    \* the texts of the query bar
  NoPri, BadPri,              \* no <...> in front, or one that is no number
  NoTerm,                     \* the empty string
  Unknown                     \* "unknown" and other names no line contains

ASSUME TextPathAssumption ==
  /\ LengthOf \in [Words -> Nat \ {0}]
  /\ FieldsOf \in [Words -> SUBSET Fields]
  /\ SizeOf \in [Fields -> Nat]
  /\ LowerOf \in [Fields -> Fields]
  /\ \A l \in Lines : l.pri \in Int \cup {NoPri, BadPri} /\ l.words \in Seq(Words)
  /\ \A q \in Queries : /\ q.form \in {"quoted", "bare", "no pipe"}
                        /\ q.terms \in Seq(Fields)
                        /\ q.labels \subseteq ({"host", "app", "env", "pid"} \X (Words \cup {Unknown}))
  /\ NoTerm \notin Fields /\ Unknown \notin Words

VARIABLES
  step,     \* "new", "stored" or "shown"
  line, query,
  parsed,   \* the ParsedLog
  tokens,   \* the terms the line is indexed under
  shown     \* the line is among those on screen

vars == <<step, line, query, parsed, tokens, shown>>

----------------------------------------------------------------------------
(* ingestion/parser.go and pipeline/tokenizer.go *)

(* How many bytes the first k words take, with the spaces between them.     *)
Offset(ws, k) ==
  LET bytes[n \in 0 .. Len(ws)] == IF n = 0 THEN -1 ELSE bytes[n - 1] + LengthOf[ws[n]] + 1
  IN bytes[k]

(* data[n] is a space.                                                      *)
SpaceAt(ws, n) == \E k \in 1 .. Len(ws) - 1 : Offset(ws, k) = n

(* Mutated form: the timestamp has one byte more.                           *)
AfterStampLonger(ws) ==
  IF SpaceAt(ws, 3) /\ SpaceAt(ws, 6) /\ SpaceAt(ws, 16)
  THEN SubSeq(ws, 1 + CHOOSE k \in 1 .. Len(ws) : Offset(ws, k) = 16, Len(ws))
  ELSE ws

(* "Mmm dd hh:mm:ss " is recognized by its three spaces.                    *)
AfterStamp(ws) ==
  IF SpaceAt(ws, 3) /\ SpaceAt(ws, 6) /\ SpaceAt(ws, 15)
  THEN SubSeq(ws, 1 + CHOOSE k \in 1 .. Len(ws) : Offset(ws, k) = 15, Len(ws))
  ELSE ws

(* ParseSyslogRFC3164, but for the clock.  >> and & of a negative PRI round *)
(* down.  The word in front of the first space is taken for the host.       *)
ParseSyslogRFC3164(l) ==
  LET rest == AfterStamp(l.words)
  IN [facility |-> IF l.pri \in {NoPri, BadPri} THEN 1 ELSE l.pri \div 8,
      severity |-> IF l.pri \in {NoPri, BadPri} THEN 6 ELSE l.pri % 8,
      hostname |-> IF Len(rest) > 1 THEN rest[1] ELSE Unknown,
      message |-> IF Len(rest) > 1 THEN Tail(rest) ELSE rest]

Tokenize(ws) ==
  {LowerOf[f] : f \in {g \in UNION {FieldsOf[ws[i]] : i \in 1 .. Len(ws)} : SizeOf[g] \in 2 .. 64}}

(* web/src/lib/queryParser.js *)

(* Mutated form: the last term is sent.                                     *)
PrimaryTermLast(q) == IF q.form = "no pipe" \/ q.terms = <<>> THEN NoTerm ELSE q.terms[Len(q.terms)]

(* parseQuery: terms are looked for after the pipe only.                    *)
PrimaryTerm(q) == IF q.form = "no pipe" \/ q.terms = <<>> THEN NoTerm ELSE q.terms[1]

(* normalizeLogEntry of a stored message.  The PRI and the header the       *)
(* formats ask for are not stored, so the plain branch is taken: the second *)
(* word is the host.                                                        *)
Normalized(message) ==
  [host |-> IF Len(message) > 1 THEN message[2] ELSE Unknown, app |-> "engine", env |-> "prod"]

(* applyLabelFilters: labels that no entry has are compared with its meta   *)
(* data, which holds the raw message alone.                                 *)
PassesLabels(entry, labels) ==
  \A lb \in labels : \/ lb[1] = "host" /\ entry.host = lb[2]
                     \/ lb[1] = "app" /\ entry.app = lb[2]
                     \/ lb[1] = "env" /\ entry.env = lb[2]

----------------------------------------------------------------------------

Init ==
  /\ step = "new"
  /\ line \in Lines /\ query \in Queries
  /\ parsed = [facility |-> 0, severity |-> 0, hostname |-> Unknown, message |-> <<>>]
  /\ tokens = {}
  /\ shown = FALSE

(* workerLoop, for one line.                                                *)
Ingest ==
  /\ step = "new"
  /\ step' = "stored"
  /\ parsed' = ParseSyslogRFC3164(line)
  /\ tokens' = Tokenize(parsed'.message)
  /\ UNCHANGED <<line, query, shown>>

(* runQuery: the term is looked up as it is; an empty one has no keys.      *)
Search ==
  /\ step = "stored"
  /\ step' = "shown"
  /\ shown' = /\ PrimaryTerm(query) \in tokens
              /\ PassesLabels(Normalized(parsed.message), query.labels)
  /\ UNCHANGED <<line, query, parsed, tokens>>

Next == Ingest \/ Search

Spec == Init /\ [][Next]_vars

----------------------------------------------------------------------------
(* Properties *)

(* The line starts with month, day and time, and has a host and a message.  *)
IsSyslog(l) ==
  /\ Len(l.words) > 4
  /\ LengthOf[l.words[1]] = 3 /\ LengthOf[l.words[2]] = 2 /\ LengthOf[l.words[3]] = 8

MessageOf(l) == SubSeq(l.words, 5, Len(l.words))

(* The terms a search should find text ws by.                               *)
TermsIn(ws) ==
  {LowerOf[f] : f \in {g \in Fields : SizeOf[g] \in 2 .. 64 /\ \E i \in 1 .. Len(ws) : g \in FieldsOf[ws[i]]}}

(* README.md:45: parsing extracts host and message of a syslog line, and a  *)
(* search without labels shows the line if and only if its message has the  *)
(* first term of the query; a query that only mentions the term further on  *)
(* or words of the header alone finds nothing.                              *)
SyslogFindable ==
  (step = "shown" /\ IsSyslog(line)) =>
    /\ parsed.hostname = line.words[4] /\ parsed.message = MessageOf(line)
    /\ (query.labels = {} /\ query.form # "no pipe" /\ query.terms # <<>>)
         => (shown <=> Head(query.terms) \in TermsIn(MessageOf(line)))

(* Nothing in front of the text: neither a PRI, nor words that happen to    *)
(* have their spaces where a timestamp has its three.                       *)
IsPlainText(l) == l.pri = NoPri /\ \E n \in {3, 6, 15} : ~SpaceAt(l.words, n)

(* A line without a header is found by each term behind its first word, or  *)
(* of its only word; what labels a query has beside the term, it never      *)
(* shows a line that does not contain the term.  (README.md:3; the parser   *)
(* takes apart what does not look like syslog, too.)                        *)
PlainTextByTerm ==
  (step = "shown" /\ IsPlainText(line) /\ query.form # "no pipe" /\ query.terms # <<>>) =>
    LET term == Head(query.terms)
        behind == IF Len(line.words) > 1 THEN Tail(line.words) ELSE line.words
    IN /\ shown => term \in TermsIn(line.words)
       /\ term \in TermsIn(behind) /\ query.labels = {} => shown

(* README.md:3: plain-text logs are tokenized and indexed, too.  The code   *)
(* takes the first word of such a line for a host and drops it.             *)
PlainTextFindable == step # "new" /\ IsPlainText(line) => tokens = TermsIn(line.words)

(* README.md:187: with the query chronologdemo, which has no pipe, new      *)
(* records with that term should appear.  The code sends no term.           *)
BareQueryFindable ==
  (step = "shown" /\ IsSyslog(line) /\ query.form = "no pipe" /\ query.labels = {} /\ query.terms # <<>>)
    => (shown <=> Head(query.terms) \in TermsIn(MessageOf(line)))

(* queryParser.js:28-29: label filters are applied against the normalised   *)
(* log objects, so a query for the host of a line and a term of its message *)
(* shows it.  The engine stores the message without its header, and the     *)
(* client takes the message's second word for the host.                     *)
HostLabelFindable ==
  (step = "shown" /\ IsSyslog(line) /\ query.labels = {<<"host", line.words[4]>>}
     /\ query.form # "no pipe" /\ query.terms # <<>>)
    => (shown <=> Head(query.terms) \in TermsIn(MessageOf(line)))

=============================================================================
