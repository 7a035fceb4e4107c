--------------------------- MODULE DefinitionMerge ---------------------------
(***************************************************************************)
(* How the generator turns the rows of the wiki's tables into a list of    *)
(* definitions: a row is parsed and normalised, and the definitions in it  *)
(* are merged into the list one by one.                                    *)
(*                                                                         *)
(* A row is [ids, numBytes, type, min, max, multiplier, units,             *)
(* description, hw].  numBytes is -1 when the cell is no number, and a     *)
(* cell for a number is [is, n]: a number n, blank, 0x..., a number with   *)
(* decimals behind a comma, or other text.  hw lists the models of the HW  *)
(* support column.  A description is there or not; names and groups have   *)
(* no influence and are left out.                                          *)
(***************************************************************************)
EXTENDS IoElements

CONSTANT Units  (* what may stand in the Units column, and what normalize writes *)

ASSUME MergeAssumption == {"", "V", "ml", "min."} \subseteq Units

Cell == [is : {"number", "blank", "0x", "comma", "text"}, n : Int]

Row ==
  [ids : Seq(Nat), numBytes : Nat \cup {-1}, type : STRING, min : Cell, max : Cell,
   multiplier : Cell, units : Units, description : BOOLEAN, hw : Seq(Models)]

(* Stands for 4294967295, which is too large for TLC.                      *)
Uint32Max == 2147483647

(* fmt.Sscan reads as far as the text is a number: "0,1" is zero.          *)
Scan(cell) == IF cell.is = "comma" THEN One * (cell.n \div One) ELSE cell.n

(* Limits count when both are there and neither is hexadecimal.            *)
HasLimits(row) ==
  /\ row.min.is # "blank" /\ row.max.is # "blank"
  /\ row.min.is # "0x" /\ row.max.is # "0x"

Skipped(row) ==
  \/ HasLimits(row) /\ "text" \in {row.min.is, row.max.is}
  \/ row.multiplier.is = "text"

(* An unknown type has no width, and what has no width that fits an        *)
(* integer is kept as bytes.                                               *)
TypeOf(row) ==
  IF row.type \in {"hex", "ascii"} THEN row.type
  ELSE IF row.type \notin ElementType \/ row.numBytes = -1 \/ row.numBytes > 8 THEN "hex"
  ELSE row.type

Normalize(d) ==
  [d EXCEPT
    !.type = IF d.id = 30 /\ @ = "ascii" THEN "unsigned" ELSE @,
    !.numBytes =
      IF d.id \in {278, 275, 272, 269} /\ @ = 2 THEN 1
      ELSE IF d.id \in 463..478 /\ @ = 8 THEN 4
      ELSE IF d.id \in {463, 467, 471, 475} /\ @ = 256 /\ d.max = Uint32Max THEN 2
      ELSE @,
    !.max =
      IF d.id = 89 /\ @ = 65535 THEN 100
      ELSE IF d.id = 168 /\ @ = 6553 THEN 65535
      ELSE IF d.id = 103 /\ @ = 1677215 THEN 16777215
      ELSE IF d.id \in 10812..10815 /\ @ = 1 THEN 0
      ELSE IF d.id \in 10836..10839 /\ @ \in {0, 65535} THEN 32767
      ELSE IF d.id \in 10824..10827 /\ @ = 65535 THEN 0
      ELSE IF d.id \in {463, 467, 471, 475} /\ @ = Uint32Max /\ d.numBytes = 256 THEN 0
      ELSE @,
    !.units =
      IF d.id \in {6, 9} /\ @ = "mV" THEN "V"
      ELSE IF @ = "-ml" THEN "ml"
      ELSE IF @ \in {"enum (bit field)", "String"} THEN ""
      ELSE IF @ = "minutes" THEN "min."
      ELSE @]

(* parseTableRow for a row on the page of a model: one definition, two for *)
(* the serial ports COM1 and COM2, none for a row that is skipped.         *)
ParseRow(model, row) ==
  IF Skipped(row) THEN <<>>
  ELSE [i \in DOMAIN row.ids |->
          Normalize(
            [id |-> row.ids[i],
             numBytes |-> IF row.type \in ElementType THEN row.numBytes ELSE -1,
             type |-> TypeOf(row),
             min |-> IF HasLimits(row) THEN row.min.n ELSE 0,
             max |-> IF HasLimits(row) THEN row.max.n ELSE 0,
             multiplier |-> IF row.multiplier.is = "blank" THEN One ELSE Scan(row.multiplier),
             units |-> row.units,
             description |-> row.description,
             models |-> ToSet(row.hw) \cup {model}])]
-----------------------------------------------------------------------------
(***************************************************************************)
(* Comparing two definitions of one id.                                    *)
(***************************************************************************)
EqualExceptSupportedModels(a, b) ==
  /\ a.type = b.type /\ a.numBytes = b.numBytes
  /\ a.multiplier = b.multiplier
  /\ a.min = b.min /\ a.max = b.max
  /\ a.units = b.units

(* The limits and multiplier that differ, of those that a sets or leaves.  *)
Fuller(a, b, sets) ==
  Cardinality({f \in {"multiplier", "min", "max"} :
                 a[f] # b[f] /\ sets = (a[f] # (IF f = "multiplier" THEN One ELSE 0))})

(* isDefinitionsEqualExceptMinMaxMultiplier: -1 for the first, 1 for the   *)
(* second, 0 for none.  For max the code looks at the first one's min, and *)
(* a field that both set counts for the first.                             *)
PreferByLimits(a, b) ==
  LET aCost == Fuller(a, b, TRUE)
      bCost == Fuller(a, b, FALSE)
  IN  IF \/ a.type # b.type \/ a.numBytes # b.numBytes \/ a.units # b.units
         \/ a.models # b.models
         \/ a.multiplier # b.multiplier /\ a.multiplier # One /\ b.multiplier # One
         \/ a.min # b.min /\ a.min # 0 /\ b.min # 0
         \/ a.max # b.max /\ a.min # 0 /\ b.max # 0
         \/ aCost = bCost
      THEN 0 ELSE IF aCost > bCost THEN -1 ELSE 1

IsFull(d) == d.max # 0 /\ d.units # "" /\ d.description
IsBare(d) == d.max = 0 /\ d.units = "" /\ ~d.description

(* preferOneThatHasMultiplierAndMaxAndMinAndDescriptionAndUnits            *)
PreferFull(a, b) ==
  IF a.type # b.type \/ a.numBytes # b.numBytes THEN 0
  ELSE IF IsFull(a) /\ IsBare(b) THEN -1
  ELSE IF IsFull(b) /\ IsBare(a) THEN 1
  ELSE 0

Preference(a, b) == IF PreferByLimits(a, b) # 0 THEN PreferByLimits(a, b) ELSE PreferFull(a, b)

(* Mutant: the arguments of containsAll are swapped.                       *)
IsCovered(a, b) == a.models \subseteq b.models

(* containsAll                                                             *)
Covers(a, b) == b.models \subseteq a.models

(* overlap                                                                 *)
Overlaps(a, b) == a.models \cap b.models # {}

(* mergeSupportedModels, the result for either of the two                  *)
Unite(a, b) == [a EXCEPT !.models = @ \cup b.models]

(* Mentioned by name in the code: two ranges that the wiki gives for       *)
(* element 90, of which the wider one is kept.                             *)
IsWiderBattery(a, b) == a.id = 90 /\ a.max = 32512 /\ b.max = 16128
-----------------------------------------------------------------------------
(* The indices are removed one after the other, although each removal      *)
(* moves the later elements; an index behind the end panics.               *)
RemoveAll(list, indices) ==
  LET removed[k \in 0..Len(indices)] ==
        IF k = 0 THEN [list |-> list, panicked |-> FALSE]
        ELSE IF removed[k - 1].panicked \/ indices[k] > Len(removed[k - 1].list)
        THEN [removed[k - 1] EXCEPT !.panicked = TRUE]
        ELSE [removed[k - 1] EXCEPT !.list = RemoveAt(@, indices[k])]
  IN  removed[Len(indices)]

(* SortStableFunc by id: a place is told by how many come before.          *)
SortedById(list) ==
  LET Before(k) == {m \in DOMAIN list : \/ list[m].id < list[k].id
                                        \/ list[m].id = list[k].id /\ m < k}
  IN  [n \in DOMAIN list |-> list[CHOOSE k \in DOMAIN list : Cardinality(Before(k)) = n - 1]]
=============================================================================
