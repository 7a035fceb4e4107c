----------------------------- MODULE IoElements -----------------------------
(***************************************************************************)
(* The ioelements package: a list of definitions, the look-up of one by    *)
(* model and id, and the decoding of a value by it.                        *)
(*                                                                         *)
(* Limits are integers; a multiplier is counted in tenths, so that One     *)
(* stands for 1.0 and decoded numbers are tenths as well.  float64 is      *)
(* taken to be exact.                                                      *)
(***************************************************************************)
EXTENDS Integers, Sequences, FiniteSets, SequencesExt

CONSTANTS
  Models,  (* names of tracker models                                      *)
  Byte     (* how many values a byte has, 256 in the program               *)

ASSUME IoElementsAssumption ==
  /\ "*" \notin Models
  /\ Byte \in Nat /\ Byte >= 2 /\ Byte % 2 = 0

One == 10

Numeric == {"unsigned", "signed"}
ElementType == Numeric \cup {"hex", "ascii"}

(* NewDecoder collects the models of all definitions.                      *)
SupportedModels(definitions) == UNION {definitions[i].models : i \in DOMAIN definitions}

NotFound == [kind |-> "not found"]

(* The first definition of that id that lists the model; any model if the  *)
(* caller does not know it.                                                *)
GetElementInfo(definitions, model, id) ==
  LET fitting == {k \in DOMAIN definitions : /\ definitions[k].id = id
                                             /\ model = "*" \/ model \in definitions[k].models}
  IN  IF model \in SupportedModels(definitions) \cup {"*"} /\ fitting # {}
      THEN definitions[Min(fitting)] ELSE NotFound

(* binary.BigEndian                                                        *)
Unsigned(bytes) ==
  LET value[k \in 0..Len(bytes)] ==
        IF k = 0 THEN 0 ELSE value[k - 1] * Byte + bytes[k]
  IN  value[Len(bytes)]

(* How many values w bytes have.                                           *)
Values(w) ==
  LET values[k \in 0..w] == IF k = 0 THEN 1 ELSE values[k - 1] * Byte
  IN  values[w]

(* Mutant: only a single byte is converted to a signed number.             *)
SignedByte(bytes) ==
  IF Len(bytes) = 1 /\ bytes[1] >= Byte \div 2
  THEN Unsigned(bytes) - Values(Len(bytes)) ELSE Unsigned(bytes)

(* The conversions to int8, int16, int32 and int64 of the unsigned value.  *)
Signed(bytes) ==
  IF bytes[1] >= Byte \div 2
  THEN Unsigned(bytes) - Values(Len(bytes)) ELSE Unsigned(bytes)

IsSwitch(def) == def.type = "unsigned" /\ def.min = 0 /\ def.max = 1

NotDecoded == [kind |-> "error"]

(* The width of a number is that of the value, not the definition's.       *)
DecodeByDefinition(def, bytes) ==
  IF Len(bytes) = 1 /\ IsSwitch(def) THEN [kind |-> "bool", value |-> bytes[1] = 1]
  ELSE IF Len(bytes) \in {1, 2, 4, 8} /\ def.type \in Numeric THEN
    [kind |-> IF def.multiplier = One THEN "integer" ELSE "float",
     value |-> def.multiplier
               * (IF def.type = "unsigned" THEN Unsigned(bytes) ELSE Signed(bytes))]
  ELSE IF def.type \in {"hex", "ascii"} THEN [kind |-> def.type, value |-> bytes]
  ELSE NotDecoded

Decode(definitions, model, id, bytes) ==
  IF GetElementInfo(definitions, model, id) = NotFound THEN NotFound
  ELSE DecodeByDefinition(GetElementInfo(definitions, model, id), bytes)
=============================================================================
