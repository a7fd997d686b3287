----------------------------- MODULE RateBands -----------------------------
(***************************************************************************)
(* The comprehensive rate bands: the rows administrators maintain, the     *)
(* comparison that quotes every underwriter that is switched on and has a  *)
(* band around the value of the vehicle, and the validator that is to find *)
(* the values for which such an underwriter is quoted twice or not at all. *)
(* The validator is given bands; it knows nothing of the switch.           *)
(*                                                                         *)
(* Amounts of money are in steps of 1/Shilling (in MySQL: hundredths); the *)
(* validator thinks in whole shillings.  Rates and premiums are left out:  *)
(* they decide on the price of a quote, not on who is quoted.              *)
(***************************************************************************)
EXTENDS Integers

CONSTANTS
  MaxBands,       \* bound on rows
  Underwriters,
  MaxValue,       \* bound on values, in steps
  Ranges,         \* pairs of values that administrators submit
  Shilling,       \* steps in one shilling
  MaxDay,         \* bound on the calendar
  Seeds,          \* tables the migration scripts may leave behind
  NoBand,         \* no row has this identifier (yet, or any more)
  NULL            \* an open end

\* Identifiers of rows, in the order they are listed.
BandIds == 1 .. MaxBands
Values == 0 .. MaxValue
Days   == 0 .. MaxDay

Row == [underwriter : Underwriters, min : Values, max : Values,
        from : Days, to : Days \cup {NULL}, active : BOOLEAN]

ASSUME RateBandsAssumption ==
  /\ MaxBands \in Nat
  /\ MaxValue \in Nat /\ MaxDay \in Nat
  /\ Ranges \subseteq Values \X Values
  /\ Shilling \in Nat \ {0}
  /\ NULL \notin Days
  /\ NoBand \notin Row
  /\ Seeds \subseteq [BandIds -> Row \cup {NoBand}]

VARIABLES
  band,      \* rows of ComprehensiveRateBand
  enabled,   \* underwriters with Underwriters.is_active
  today
vars == <<band, enabled, today>>

TypeOK ==
  /\ band \in [BandIds -> Row \cup {NoBand}]
  /\ enabled \subseteq Underwriters
  /\ today \in Days

Rows == {b \in BandIds : band[b] # NoBand}

-----------------------------------------------------------------------------
(* What the comparison quotes.                                             *)

InEffect(row) ==
  /\ row.active
  /\ row.from <= today
  /\ row.to # NULL => row.to >= today

Covers(row, v) == row.min <= v /\ v <= row.max

\* usp_ComprehensiveRateBand_GetOptions: one option for each row.
Options(v) ==
  {b \in Rows : /\ InEffect(band[b])
                /\ band[b].underwriter \in enabled
                /\ Covers(band[b], v)}

QuotesOf(u, v) == {b \in Options(v) : band[b].underwriter = u}

-----------------------------------------------------------------------------
(* The validator, for the bands B of one underwriter.                      *)

Proper(B) == {b \in B : band[b].max >= band[b].min}

\* Mutant: the rows are compared as listed, unsorted.
PrecedesAsListed(a, b) == a < b

\* OrderBy(ValueMin) is stable: rows with the same minimum stay as listed.
Precedes(a, b) ==
  \/ band[a].min < band[b].min
  \/ band[a].min = band[b].min /\ a < b

\* <<ordered[i - 1], ordered[i]>>, for every i.
Neighbours(B) ==
  {p \in B \X B : /\ Precedes(p[1], p[2])
                  /\ \A c \in B : ~(Precedes(p[1], c) /\ Precedes(c, p[2]))}

Smaller(x, y) == IF x <= y THEN x ELSE y

\* Mutant: a gap begins at the last value covered.
FindGapsFromMax(B) ==
  {[from |-> band[p[1]].max, to |-> band[p[2]].min - Shilling] :
     p \in {q \in Neighbours(Proper(B)) :
              band[q[2]].min > band[q[1]].max + Shilling}}

FindGaps(B) ==
  {[from |-> band[p[1]].max + Shilling, to |-> band[p[2]].min - Shilling] :
     p \in {q \in Neighbours(Proper(B)) :
              band[q[2]].min > band[q[1]].max + Shilling}}

\* Mutant: bands that share one value do not overlap.
FindOverlapsStrict(B) ==
  {[from |-> band[p[2]].min, to |-> Smaller(band[p[1]].max, band[p[2]].max)] :
     p \in {q \in Neighbours(Proper(B)) : band[q[2]].min < band[q[1]].max}}

\* Mutant: an overlap extends to the end of the first band.
FindOverlapsToPrevious(B) ==
  {[from |-> band[p[2]].min, to |-> band[p[1]].max] :
     p \in {q \in Neighbours(Proper(B)) : band[q[2]].min <= band[q[1]].max}}

FindOverlaps(B) ==
  {[from |-> band[p[2]].min, to |-> Smaller(band[p[1]].max, band[p[2]].max)] :
     p \in {q \in Neighbours(Proper(B)) : band[q[2]].min <= band[q[1]].max}}

-----------------------------------------------------------------------------
(* The administrators.  Both procedures test that the row exists before    *)
(* they write it; if it goes in between, the write finds no row and the    *)
(* call does nothing, as if it had come too late.                          *)

\* usp_ComprehensiveRateBand_Upsert without an identifier.  An identifier stands
\* for a place in the list, so one that was freed may be taken again.
InsertBand(b, u, lo, hi) ==
  /\ band[b] = NoBand
  /\ lo < hi
  /\ band' = [band EXCEPT ![b] =
       [underwriter |-> u, min |-> lo, max |-> hi,
        from |-> today, to |-> NULL, active |-> TRUE]]
  /\ UNCHANGED <<enabled, today>>

\* usp_ComprehensiveRateBand_Upsert of a row: its dates and is_active stay.
UpdateBand(b, u, lo, hi) ==
  /\ b \in Rows
  /\ lo < hi
  /\ band' = [band EXCEPT ![b].underwriter = u, ![b].min = lo, ![b].max = hi]
  /\ UNCHANGED <<enabled, today>>

\* usp_ComprehensiveRateBand_Delete.
DeleteBand(b) ==
  /\ b \in Rows
  /\ band' = [band EXCEPT ![b] = NoBand]
  /\ UNCHANGED <<enabled, today>>

\* usp_Underwriter_SetActiveStatus, which leaves the bands alone.
SetActiveStatus(u, isActive) ==
  /\ enabled' = IF isActive THEN enabled \cup {u} ELSE enabled \ {u}
  /\ UNCHANGED <<band, today>>

NextDay ==
  /\ today < MaxDay
  /\ today' = today + 1
  /\ UNCHANGED <<band, enabled>>

Init ==
  /\ band \in Seeds
  /\ enabled \in SUBSET Underwriters
  /\ today = 0

Next ==
  \/ \E b \in BandIds, u \in Underwriters, r \in Ranges :
       InsertBand(b, u, r[1], r[2]) \/ UpdateBand(b, u, r[1], r[2])
  \/ \E b \in BandIds : DeleteBand(b)
  \/ \E u \in Underwriters, isActive \in BOOLEAN : SetActiveStatus(u, isActive)
  \/ NextDay

Spec == Init /\ [][Next]_vars

-----------------------------------------------------------------------------
(* Properties: what a report of the validator says of the quotes of an     *)
(* underwriter that is switched on.                                        *)

BandsOf(u) == {b \in Rows : band[b].underwriter = u /\ InEffect(band[b])}

Whole(v) == \E k \in Values : v = k * Shilling

WholeBands(B) == \A b \in B : Whole(band[b].min) /\ Whole(band[b].max)

\* Whole values between the lowest and the highest configured.
Between(B) ==
  {v \in Values : /\ Whole(v)
                  /\ \E b \in Proper(B) : band[b].min <= v
                  /\ \E b \in Proper(B) : band[b].max >= v}

Reported(report) == {v \in Values : \E r \in report : r.from <= v /\ v <= r.to}

\* The validator compares neighbours only, yet it is silent about overlaps
\* exactly when no vehicle value, whole or not, gets the same insurer twice
\* (RateBandCoverageValidator.FindOverlaps against
\* usp_ComprehensiveRateBand_GetOptions).
OverlapsFoundIffQuotedTwice ==
  \A u \in enabled :
    FindOverlaps(BandsOf(u)) = {}
      <=> \A v \in Values : \A a, b \in QuotesOf(u, v) : a = b

\* Every value in a reported overlap is quoted twice: no false alarm.
OverlapsAreReal ==
  \A u \in enabled :
    \A v \in Reported(FindOverlaps(BandsOf(u))) :
      \E a, b \in QuotesOf(u, v) : a # b

\* Even where bands overlap, silence about gaps means that every whole value
\* between the lowest and the highest is quoted (FindGaps); bands are those
\* with whole limits, as all that the scripts load.
NoGapMeansQuoted ==
  \A u \in enabled :
    LET B == BandsOf(u) IN
      WholeBands(B) /\ FindGaps(B) = {} => \A v \in Between(B) : QuotesOf(u, v) # {}

\* Where bands do not overlap, the reported gaps are exactly the whole values
\* at which the underwriter drops out of the comparison.
GapsAreExact ==
  \A u \in enabled :
    LET B == BandsOf(u) IN
      WholeBands(B) /\ FindOverlaps(B) = {} =>
        {v \in Reported(FindGaps(B)) : Whole(v)} = {v \in Between(B) : QuotesOf(u, v) = {}}
=============================================================================
