----------------------------- MODULE KeySchema ------------------------------
(***************************************************************************)
(* The keys in LevelDB (storage/schema.go), byte by byte, and the scan of   *)
(* SearchTerm that trusts their order.  A byte has Base values and a uint64 *)
(* Width bytes.  QueryEngine takes for granted what this module checks:     *)
(* that an index key leads to its record, and that the keys of one term are *)
(* next to each other and sorted by time.                                   *)
(***************************************************************************)
EXTENDS Integers, Sequences, FiniteSets

CONSTANTS
  Base,        \* 256
  Width,       \* 8
  Terms,       \* terms: sequences of bytes other than 0x00
  Stamps,      \* TimestampNano of lines, and the ends of windows
  Facilities,  \* a facility is an int, and may be negative
  MaxLines     \* bound on lines

Power[k \in 0 .. Width] == IF k = 0 THEN 1 ELSE Base * Power[k - 1]
Modulus == Power[Width]
Bytes == 0 .. Base - 1

ASSUME KeySchemaAssumption ==
  /\ Base \in Nat \ (0 .. 3) /\ Width \in Nat \ {0}
  /\ Terms \subseteq Seq(Bytes \ {0})
  /\ Stamps \subseteq 0 .. (Modulus \div 2) - 1
  /\ Facilities \subseteq -(Modulus \div 2) .. (Modulus \div 2) - 1
  /\ MaxLines \in Nat

VARIABLES
  lines,  \* the lines that were written: term, ts and stream
  db,     \* the keys on disk
  scan,   \* the search: term, start and end, or <<>>
  last,   \* the iterator's key, or where it starts from
  found,  \* <<ts, stream>> of the matches, in the order they were fetched
  done

keyVars == <<lines, db, scan, last, found, done>>

----------------------------------------------------------------------------

PrefixLogRecord == 1
PrefixIndexTerm == 2

(* Conversions between int64 and uint64.                                    *)
Unsigned(n) == n % Modulus
Signed(n) == IF n < Modulus \div 2 THEN n ELSE n - Modulus

(* Mutated form: little endian.                                             *)
PutUint64Little(n) == [i \in 1 .. Width |-> (n \div Power[i - 1]) % Base]

(* binary.BigEndian.                                                        *)
PutUint64(n) == [i \in 1 .. Width |-> (n \div Power[Width - i]) % Base]
Uint64(bs) ==
  LET value[i \in 0 .. Width] == IF i = 0 THEN 0 ELSE value[i - 1] * Base + bs[i]
  IN value[Width]

EncodeLogKey(stream, ts) == <<PrefixLogRecord>> \o PutUint64(stream) \o PutUint64(Unsigned(ts))

EncodeIndexKey(term, ts, stream) ==
  <<PrefixIndexTerm>> \o term \o <<0>> \o PutUint64(Unsigned(ts)) \o PutUint64(stream)

(* The decoded key, in a set, or nothing.                                   *)
DecodeIndexKey(key) ==
  {[term |-> SubSeq(key, 2, d - 1),
    ts |-> Signed(Uint64(SubSeq(key, d + 1, d + Width))),
    stream |-> Uint64(SubSeq(key, d + Width + 1, d + 2 * Width))] :
     d \in {i \in 2 .. Len(key) : /\ key[1] = PrefixIndexTerm
                                  /\ key[i] = 0 /\ \A j \in 2 .. i - 1 : key[j] # 0
                                  /\ Len(key) - i = 2 * Width}}

(* LevelDB orders keys byte by byte.                                        *)
Before(a, b) ==
  \E i \in 1 .. Len(b) : /\ i <= Len(a) + 1 /\ \A j \in 1 .. i - 1 : a[j] = b[j]
                         /\ i <= Len(a) => a[i] < b[i]

(* util.BytesPrefix: its limit is the prefix with its last byte that can    *)
(* grow grown by one, and what follows cut off.                             *)
PrefixLimit(p) ==
  LET i == CHOOSE k \in 1 .. Len(p) : p[k] < Base - 1 /\ \A j \in k + 1 .. Len(p) : p[j] = Base - 1
  IN [SubSeq(p, 1, i) EXCEPT ![i] = @ + 1]

----------------------------------------------------------------------------

KeyInit == lines = {} /\ db = {} /\ scan = <<>> /\ last = <<>> /\ found = <<>> /\ done = FALSE

(* A line of one term is parsed and written; StreamID is uint64(Facility).  *)
Write(term, ts, facility) ==
  /\ scan = <<>> /\ Cardinality(lines) < MaxLines
  /\ LET stream == Unsigned(facility)
     IN /\ lines' = lines \cup {[term |-> term, ts |-> ts, stream |-> stream]}
        /\ db' = db \cup {EncodeLogKey(stream, ts), EncodeIndexKey(term, ts, stream)}
  /\ UNCHANGED <<scan, last, found, done>>

ScanPrefix(term) == <<PrefixIndexTerm>> \o term \o <<0>>

(* The iterator is made.                                                    *)
NewIterator(term, start, end) ==
  /\ scan = <<>>
  /\ scan' = [term |-> term, start |-> start, end |-> end]
  /\ UNCHANGED <<lines, db, last, found, done>>

(* The keys the iterator has not shown yet.                                 *)
Ahead ==
  LET prefix == ScanPrefix(scan.term)
  IN {k \in db : ~Before(k, prefix) /\ Before(k, PrefixLimit(prefix)) /\ (last = <<>> \/ Before(last, k))}

(* iter.Next and the loop's body, for a search without a limit: a key that  *)
(* does not decode or is too early is passed over, one too late ends the    *)
(* scan, and any other is fetched.                                          *)
IterNext ==
  /\ scan # <<>> /\ ~done
  /\ \E k \in Ahead :
       /\ \A other \in Ahead \ {k} : Before(k, other)
       /\ last' = k
       /\ \/ /\ \A d \in DecodeIndexKey(k) : d.ts < scan.start
             /\ UNCHANGED <<found, done>>
          \/ \E d \in DecodeIndexKey(k) :
               /\ d.ts > scan.end
               /\ done' = TRUE
               /\ UNCHANGED found
          \/ \E d \in DecodeIndexKey(k) :
               /\ d.ts \in scan.start .. scan.end
               /\ found' = IF EncodeLogKey(d.stream, d.ts) \in db
                           THEN Append(found, <<d.ts, d.stream>>) ELSE found
               /\ UNCHANGED done
  /\ UNCHANGED <<lines, db, scan>>

IterEnd ==
  /\ scan # <<>> /\ ~done
  /\ Ahead = {}
  /\ done' = TRUE
  /\ UNCHANGED <<lines, db, scan, last, found>>

KeyNext ==
  \/ \E t \in Terms, ts \in Stamps, f \in Facilities : Write(t, ts, f)
  \/ \E t \in Terms, a \in Stamps, b \in Stamps : NewIterator(t, a, b)
  \/ IterNext
  \/ IterEnd

KeySpec == KeyInit /\ [][KeyNext]_keyVars

----------------------------------------------------------------------------
(* Properties *)

(* The scan of a term finds the lines with that term in the window, no line *)
(* of a term that merely begins like it, and finds them oldest first: were  *)
(* the order of the keys another, the first late key would hide the rest.   *)
ScanExact ==
  done =>
    LET wanted == {<<l.ts, l.stream>> : l \in {x \in lines : x.term = scan.term
                                                            /\ x.ts \in scan.start .. scan.end}}
    IN /\ {found[i] : i \in 1 .. Len(found)} = wanted
       /\ \A i, j \in 1 .. Len(found) :
            i < j => \/ found[i][1] < found[j][1]
                     \/ found[i][1] = found[j][1] /\ found[i][2] < found[j][2]

=============================================================================
