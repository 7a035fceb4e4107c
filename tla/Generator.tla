------------------------------ MODULE Generator ------------------------------
(***************************************************************************)
(* load-net of the definition generator: the wiki's pages are loaded one   *)
(* after the other, through a cache file, and the definitions in their     *)
(* rows are merged into a list.  The links of a row put further pages on   *)
(* the work list.  A run may be killed, and the generator be run again.    *)
(*                                                                         *)
(* A page is known by its model: modelNameToUrl is one-to-one, and a page  *)
(* carries the name of its model.                                          *)
(***************************************************************************)
EXTENDS DefinitionMerge

CONSTANTS
  Wikis,      (* a wiki is a function from models to sequences of rows     *)
  Start,      (* the models on the command line                            *)
  Buffers,    (* values to be decoded by the definitions                   *)
  MaxRuns,    (* bound: runs of the generator                              *)
  MaxFaults   (* bound: failures of the network or the disk, and crashes   *)

ASSUME GeneratorAssumption ==
  /\ IsFiniteSet(Models)
  /\ Wikis \subseteq [Models -> Seq(Row)]
  /\ Start \in Seq(Models) /\ IsInjective(Start)
  /\ Buffers \subseteq Seq(0..(Byte - 1))
  /\ MaxRuns \in Nat \ {0} /\ MaxFaults \in Nat

VARIABLES
  wiki,        (* the rows of each model's page                            *)
  noCache,     (* the option of the run                                    *)
  noFollow,    (* the option of the run                                    *)
  at,          (* what the program does next                               *)
  urlsToProcess,
  i,           (* the page being loaded or read                            *)
  decodedMap,  (* the pages known to loadPage                              *)
  cache,       (* the cache file                                           *)
  row,         (* the next row of the page                                 *)
  items,       (* the definitions of the row yet to be merged              *)
  next,        (* where the comparison with the list goes on               *)
  toReplace,   (* indices of definitions that the current one replaces     *)
  result,      (* the list of definitions                                  *)
  runs, faults,
  seen,        (* history: <<model, id>> of every definition merged        *)
  dropped,     (* history: those given up because pages contradict         *)
  removals,    (* history: the most definitions replaced by a single one   *)
  unread,      (* history: pages that did not come in this run             *)
  stored,      (* history: pages written to the cache file                 *)
  interrupted  (* history: a run failed or was killed while it was storing *)

crawl == <<urlsToProcess, i, decodedMap, row, unread>>
merging == <<items, next, toReplace>>
list == <<result, seen, dropped, removals>>
options == <<wiki, noCache, noFollow>>
disk == <<cache, stored, interrupted>>
bounds == <<runs, faults>>
vars == <<at, crawl, merging, list, options, disk, bounds>>

Absent == [is |-> "absent", pages |-> <<>>]
Torn == [is |-> "torn", pages |-> <<>>]

Ended == {"done", "fatal", "panicked", "killed"}

url == urlsToProcess[i]

Init ==
  /\ wiki \in Wikis
  /\ noCache \in BOOLEAN /\ noFollow \in BOOLEAN
  /\ at = "page" /\ urlsToProcess = Start /\ i = 1 /\ decodedMap = <<>> /\ row = 1
  /\ items = <<>> /\ next = 1 /\ toReplace = <<>>
  /\ result = <<>> /\ seen = {} /\ dropped = {} /\ removals = 0 /\ unread = {}
  /\ cache = Absent /\ stored = {} /\ interrupted = FALSE
  /\ runs = 1 /\ faults = 0

Fault == faults < MaxFaults /\ faults' = faults + 1 /\ UNCHANGED runs
NoFault == UNCHANGED bounds
-----------------------------------------------------------------------------
(***************************************************************************)
(* loadPage                                                                *)
(***************************************************************************)
(* Mutant: the length of the work list is taken once.                      *)
MoreAtStart == i <= Len(Start)

(* The length of the work list is taken anew for each turn.                *)
MorePages == i <= Len(urlsToProcess)

(* Mutant: a missing file is decoded like any other.                       *)
CannotBeReadUnchecked == cache.is # "map"

CannotBeRead == cache.is = "torn"

(* Mutant: the map starts out empty for every page.                        *)
EmptyMap == <<>>

KnownPages == IF noCache THEN <<>> ELSE cache.pages

RefuseCache ==
  /\ at = "page" /\ MorePages /\ ~noCache /\ CannotBeRead
  /\ at' = "fatal"
  /\ UNCHANGED <<crawl, merging, list, options, disk, bounds>>

OpenCache ==
  /\ at = "page" /\ MorePages /\ (noCache \/ ~CannotBeRead)
  /\ decodedMap' = KnownPages
  /\ at' = IF url \in DOMAIN KnownPages THEN "rows" ELSE "get"
  /\ unread' = IF url \in DOMAIN KnownPages /\ KnownPages[url] = "empty"
               THEN unread \cup {url} ELSE unread
  /\ UNCHANGED <<urlsToProcess, i, row, merging, list, options, disk, bounds>>

(* Mutant: a page that did not come is asked for again.                    *)
GetAgain ==
  /\ at = "get" /\ at' = "page"
  /\ unread' = unread \cup {url}
  /\ UNCHANGED <<urlsToProcess, i, decodedMap, row, merging, list, options, disk, bounds>>

(* No answer, or no complete one: the page is passed over.                 *)
GetFails ==
  /\ at = "get" /\ at' = "page"
  /\ i' = i + 1
  /\ unread' = unread \cup {url}
  /\ Fault
  /\ UNCHANGED <<urlsToProcess, decodedMap, row, merging, list, options, disk>>

(* The page, or any status but 200, for which an empty one is kept.        *)
Get(answer) ==
  /\ at = "get" /\ at' = IF noCache THEN "rows" ELSE "create"
  /\ decodedMap' = [m \in DOMAIN decodedMap \cup {url}
                         |-> IF m = url THEN answer ELSE decodedMap[m]]
  /\ IF answer = "page" THEN UNCHANGED unread /\ NoFault
                        ELSE unread' = unread \cup {url} /\ Fault
  /\ UNCHANGED <<urlsToProcess, i, row, merging, list, options, disk>>

(* os.Create empties the file that is there.                               *)
CreateCache ==
  /\ at = "create" /\ at' = "encode"
  /\ cache' = Torn
  /\ UNCHANGED <<crawl, merging, list, options, stored, interrupted, bounds>>

EncodeCache ==
  /\ at = "encode" /\ at' = "rows"
  /\ cache' = [is |-> "map", pages |-> decodedMap]
  /\ stored' = stored \cup {url}
  /\ UNCHANGED <<crawl, merging, list, options, interrupted, bounds>>

(* An error of os.Create is found out by the encoder, which writes nothing *)
(* to what is not a file; other errors leave part of the map behind.       *)
StoreFails ==
  /\ at \in {"create", "encode"} /\ at' = "fatal"
  /\ interrupted' = TRUE
  /\ Fault
  /\ UNCHANGED <<crawl, merging, list, options, cache, stored>>
-----------------------------------------------------------------------------
(***************************************************************************)
(* processPageTable and its callback                                       *)
(***************************************************************************)
Rows == IF decodedMap[url] = "page" THEN wiki[url] ELSE <<>>

(* Mutant: links are put on the work list without a look at it.            *)
AddAllLinks(urls, links) == urls \o links

AddLinks(urls, links) ==
  LET known[k \in 0..Len(links)] ==
        IF k = 0 THEN urls
        ELSE IF links[k] \in ToSet(known[k - 1]) THEN known[k - 1]
        ELSE Append(known[k - 1], links[k])
  IN  known[Len(links)]

(* One row: its links, then onDefinition for each definition in it.        *)
ReadRow ==
  /\ at = "rows" /\ row <= Len(Rows)
  /\ row' = row + 1
  /\ urlsToProcess' = IF noFollow THEN urlsToProcess ELSE AddLinks(urlsToProcess, Rows[row].hw)
  /\ items' = ParseRow(url, Rows[row])
  /\ at' = IF items' = <<>> THEN "rows" ELSE "merge"
  /\ UNCHANGED <<i, decodedMap, unread, next, toReplace, list, options, disk, bounds>>

EndPage ==
  /\ at = "rows" /\ row > Len(Rows)
  /\ at' = "page" /\ i' = i + 1 /\ row' = 1
  /\ UNCHANGED <<urlsToProcess, decodedMap, unread, merging, list, options, disk, bounds>>

-----------------------------------------------------------------------------
(***************************************************************************)
(* onDefinition of collectDefinitionsNetwork: the current definition       *)
(* against each one of the same id, in the order of the list.              *)
(***************************************************************************)
current == Head(items)

IsCandidate(c) ==
  /\ at = "merge"
  /\ c = SelectInSubSeq(result, next, Len(result), LAMBDA d : d.id = current.id)
  /\ c # 0

(* The loop is left or run through: on to the next definition of the row.  *)
NextItem ==
  /\ items' = Tail(items) /\ next' = 1 /\ toReplace' = <<>>
  /\ seen' = seen \cup {<<m, current.id>> : m \in current.models}

RowGoesOn == at' = IF Len(items) = 1 THEN "rows" ELSE "merge"

GiveUp(loser, kept) ==
  dropped' = dropped \cup {<<m, loser.id>> : m \in loser.models \ kept.models}

(* continue: another model's definition, or one to be replaced.            *)
CompareNext(c) ==
  /\ next' = c + 1
  /\ UNCHANGED <<at, crawl, seen, removals, options, disk, bounds>>

PassOver(c) ==
  /\ IsCandidate(c)
  /\ ~EqualExceptSupportedModels(result[c], current) /\ ~Overlaps(result[c], current)
  /\ CompareNext(c)
  /\ UNCHANGED <<items, toReplace, result, dropped>>

(* The definitions contradict each other for a model they have in common.  *)
Contradict(c) ==
  /\ IsCandidate(c)
  /\ ~EqualExceptSupportedModels(result[c], current) /\ Overlaps(result[c], current)

Neither(c) == Contradict(c) /\ ~Covers(result[c], current) /\ ~Covers(current, result[c])

Replace(c) ==
  /\ \/ /\ Contradict(c) /\ ~Covers(result[c], current) /\ Covers(current, result[c])
        /\ UNCHANGED <<items, result, dropped>>
     \/ /\ Neither(c) /\ Preference(result[c], current) = 1
        /\ items' = [items EXCEPT ![1] = Unite(@, result[c])]
        /\ result' = [result EXCEPT ![c] = Unite(@, current)]
        /\ UNCHANGED dropped
     \/ /\ Neither(c) /\ Preference(result[c], current) = 0
        /\ IsWiderBattery(current, result[c])
        /\ GiveUp(result[c], current)
        /\ UNCHANGED <<items, result>>
  /\ toReplace' = Append(toReplace, c)
  /\ CompareNext(c)

(* return: the definition in the list stands, for the current one's models *)
(* too or not; a contradiction that nothing resolves is only logged.       *)
Keep(c) ==
  /\ \/ /\ IsCandidate(c)
        /\ \/ EqualExceptSupportedModels(result[c], current)
           \/ Neither(c) /\ Preference(result[c], current) = -1
        /\ result' = [result EXCEPT ![c] = Unite(@, current)]
        /\ UNCHANGED dropped
     \/ /\ Contradict(c) /\ Covers(result[c], current)
        /\ UNCHANGED <<result, dropped>>
     \/ /\ Neither(c) /\ Preference(result[c], current) = 0
        /\ ~IsWiderBattery(current, result[c])
        /\ GiveUp(current, result[c])
        /\ UNCHANGED result
  /\ NextItem /\ RowGoesOn
  /\ UNCHANGED <<crawl, removals, options, disk, bounds>>

(* The end of the list: the replaced definitions go, the current one comes.*)
Settle ==
  /\ at = "merge" /\ \A c \in DOMAIN result : ~IsCandidate(c)
  /\ removals' = Max({removals, Len(toReplace)})
  /\ LET rest == RemoveAll(result, toReplace)
     IN  IF rest.panicked
         THEN at' = "panicked" /\ result' = rest.list /\ UNCHANGED <<merging, seen>>
         ELSE NextItem /\ RowGoesOn /\ result' = Append(rest.list, current)
  /\ UNCHANGED <<crawl, dropped, options, disk, bounds>>

(* The list is sorted and written out.                                     *)
Finish ==
  /\ at = "page" /\ ~MorePages
  /\ at' = "done"
  /\ result' = SortedById(result)
  /\ UNCHANGED <<crawl, merging, seen, dropped, removals, options, disk, bounds>>
-----------------------------------------------------------------------------
Kill ==
  /\ at \notin Ended /\ at' = "killed"
  /\ interrupted' = (interrupted \/ at = "encode")
  /\ Fault
  /\ UNCHANGED <<crawl, merging, list, options, cache, stored>>

RunAgain ==
  /\ at \in Ended /\ runs < MaxRuns
  /\ runs' = runs + 1
  /\ noCache' \in BOOLEAN /\ noFollow' \in BOOLEAN
  /\ at' = "page" /\ urlsToProcess' = Start /\ i' = 1 /\ decodedMap' = <<>> /\ row' = 1
  /\ items' = <<>> /\ next' = 1 /\ toReplace' = <<>>
  /\ result' = <<>> /\ seen' = {} /\ dropped' = {} /\ removals' = 0 /\ unread' = {}
  /\ UNCHANGED <<wiki, disk, faults>>

Step ==
  \/ RefuseCache \/ OpenCache
  \/ GetFails \/ \E answer \in {"page", "empty"} : Get(answer)
  \/ CreateCache \/ EncodeCache \/ StoreFails
  \/ ReadRow \/ EndPage \/ Finish
  \/ \E c \in DOMAIN result : PassOver(c) \/ Replace(c) \/ Keep(c)
  \/ Settle

Next == Step \/ Kill \/ RunAgain

(* A run is a sequential program that takes its next step as long as it is *)
(* not killed; http.Get ends with an answer or an error.                   *)
Spec == Init /\ [][Next]_vars /\ WF_vars(Step)
-----------------------------------------------------------------------------
Definition ==
  [id : Nat, numBytes : Nat \cup {-1}, type : ElementType, min : Int, max : Int,
   multiplier : Int, units : Units, description : BOOLEAN, models : SUBSET Models]

(* The variables have their types, and no link puts a page on the work     *)
(* list a second time, so the list is never longer than there are models   *)
(* (the test of io_elements_gen.go:497).                                   *)
GeneratorTypeOK ==
  /\ wiki \in Wikis /\ noCache \in BOOLEAN /\ noFollow \in BOOLEAN
  /\ at \in Ended \cup {"page", "get", "create", "encode", "rows", "merge"}
  /\ urlsToProcess \in Seq(Models) /\ IsInjective(urlsToProcess)
  /\ i \in 1..(Len(urlsToProcess) + 1)
  /\ row \in Nat /\ result \in Seq(Definition) /\ items \in Seq(Definition)
  /\ at # "panicked" => next \in 1..(Len(result) + 1) /\ toReplace \in Seq(DOMAIN result)
  /\ cache.is \in {"absent", "torn", "map"}
  /\ runs \in 1..MaxRuns /\ faults \in 0..MaxFaults
  /\ seen \subseteq Models \X Nat /\ dropped \subseteq Models \X Nat
  /\ unread \cup stored \subseteq Models

(* The models whose pages can be reached over pages that did come: the     *)
(* least set that has the models of the command line and is closed under   *)
(* the links of its pages.                                                 *)
Reachable ==
  LET Links(m) == IF noFollow \/ m \in unread THEN {}
                  ELSE UNION {ToSet(wiki[m][k].hw) : k \in DOMAIN wiki[m]}
      Closed == {S \in SUBSET Models : /\ ToSet(Start) \subseteq S
                                       /\ \A m \in S : Links(m) \subseteq S}
  IN  {m \in Models : \A S \in Closed : m \in S}

(* A run that ends has looked at every page that can be reached, and at no *)
(* other, in whatever order the links of the pages came up (the work list  *)
(* of io_elements_gen.go:462-518 grows while it is being worked off).      *)
EveryReachablePageIsRead ==
  at = "done" => ToSet(urlsToProcess) = Reachable

(* Whatever was once written to the cache file is in it as long as the     *)
(* file can be read at all: no later page, run or failure takes it out (a  *)
(* page reads the whole map and writes it back, io_elements_gen.go:521).   *)
CacheKeepsItsPages ==
  cache.is # "torn" => stored \subseteq DOMAIN cache.pages

(* The cache file is useless only while it is being written, or after a    *)
(* run that was stopped right then; no run ends over it otherwise          *)
(* (io_elements_gen.go:528 and 554).                                       *)
CacheBreaksOnlyInTheMiddle ==
  /\ cache.is = "torn" => at = "encode" \/ interrupted
  /\ at = "fatal" => interrupted

(* An element that a page documents for a model is found for that model in *)
(* the end, by some definition: merging loses none, unless two pages       *)
(* contradict each other or one definition replaces two                    *)
(* (io_elements_gen.go:263).                                               *)
NothingIsLost ==
  removals <= 1 /\ at # "panicked" =>
    \A e \in seen \ dropped : GetElementInfo(result, e[1], e[2]) # NotFound

(* What a number of w bytes stands for: the only number of its range that  *)
(* agrees with the bytes, each at the weight of its place, modulo the      *)
(* number of values that w bytes have.                                     *)
Denotes(type, bytes) ==
  LET w == Len(bytes)
      range == IF type = "unsigned" THEN 0..(Values(w) - 1)
               ELSE -(Values(w) \div 2)..(Values(w) \div 2 - 1)
      sum[k \in 0..w] == IF k = 0 THEN 0 ELSE sum[k - 1] + bytes[k] * Values(w - k)
  IN  CHOOSE n \in range : (n - sum[w]) % Values(w) = 0

(* Every number that an application decodes with the generated definitions *)
(* is the one that the bytes stand for times the multiplier, whatever the  *)
(* width of the value and the model it asks for (ioelements.go:113-166).   *)
DecodedIsTheNumber ==
  at = "done" =>
    \A model \in Models \cup {"*"}, k \in DOMAIN result, bytes \in Buffers :
      LET element == Decode(result, model, result[k].id, bytes)
          def == GetElementInfo(result, model, result[k].id)
      IN  element.kind \in {"integer", "float"} =>
            element.value = def.multiplier * Denotes(def.type, bytes)

(* What a run has yet to do, the most significant part first: the pages    *)
(* that may still come, the stages of the one at work, its rows, the       *)
(* definitions of the row and those that each is compared with.            *)
PagesLeft == Cardinality(Models) + 1 - i

StagesLeft ==
  CASE at = "page" -> 5 [] at = "get" -> 4 [] at = "create" -> 3 [] at = "encode" -> 2
    [] at \in {"rows", "merge"} -> 1 [] at \in Ended -> 0

RowsLeft == IF at \in {"rows", "merge"} THEN Len(Rows) + 1 - row ELSE 0

CandidatesLeft == IF at = "merge" THEN Len(result) + 1 - next ELSE 0

Left == <<PagesLeft, StagesLeft, RowsLeft, Len(items), CandidatesLeft>>

Less(s, t) == \E k \in 1..5 : s[k] < t[k] /\ \A n \in 1..(k - 1) : s[n] = t[n]

(* No step of a run is in vain, and none puts off the end of the run: five *)
(* natural numbers get less, and there is no doing that for ever, whatever *)
(* the pages link to and however definitions replace each other            *)
(* (io_elements_gen.go:468, 497 and 275).                                  *)
EveryStepGetsOn == [][at \notin Ended => Left' \in [1..5 -> Nat] /\ Less(Left', Left)]_vars

(* Every run comes to an end, as its work list cannot grow forever         *)
(* (io_elements_gen.go:468).                                               *)
EveryRunEnds == at \notin Ended ~> at \in Ended
-----------------------------------------------------------------------------
(* Violated.  The generator reads the pages and writes what it found, so   *)
(* it does not panic on the way (tools/README.md:3; io_elements_gen.go:342 *)
(* removes by indices that have moved).                                    *)
GeneratorDoesNotPanic == at # "panicked"

(* Violated.  Decoding keeps numbers apart: two values of the same width   *)
(* that a numeric definition decodes to the same number are the same       *)
(* (README.md:10; a multiplier written with a comma becomes zero in        *)
(* io_elements_gen.go:634 and in ioelements_dump.go).                      *)
NumbersTellBytesApart ==
  at = "done" =>
    \A k \in DOMAIN result, a, b \in Buffers :
      LET x == DecodeByDefinition(result[k], a)
          y == DecodeByDefinition(result[k], b)
      IN  Len(a) = Len(b) /\ x.kind \in {"integer", "float"} /\ x = y => a = b
=============================================================================
