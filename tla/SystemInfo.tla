------------------------------- MODULE SystemInfo -------------------------------
(***************************************************************************)
(* -info: the walk over a target's access ports and ROM tables              *)
(* (cheese_systeminfo.c).  detectSystem() looks for access ports until one  *)
(* does not identify itself, then extractComponent() follows the base       *)
(* address of each of them through tables of tables, and shows the registers *)
(* of a component that it takes for a System Control Space.                  *)
(*                                                                         *)
(* Every transfer may fail.  The recursion of extractComponent() and        *)
(* extractROMtable() is the list of components still to extract.  Component *)
(* addresses are multiples of 4KB, hence numbers of pages; Pages is their   *)
(* modulus.                                                                  *)
(***************************************************************************)
EXTENDS Integers, SequencesExt

CONSTANTS
  Targets,    \* access ports and, by page, the components the first of them reaches
  arm_comp,   \* the table of known components: their ID and componentClass
  MaxAPs,     \* the size of myAccessPorts (10)
  RomEntries, \* entries of a ROM table that are looked at (16)
  Pages,      \* pages in the address space (2^20)
  MaxDepth    \* bound: tables on the way to a component

ASSUME SizesAssumption == MaxAPs \in Nat \ {0} /\ RomEntries \in Nat \ {0} /\ MaxDepth \in Nat
ASSUME PagesAssumption == Pages \in Nat \ {0}
ASSUME TableAssumption == arm_comp \in Seq([ID : STRING, componentClass : STRING])

Classes == {"ROM", "CoreSight", "genericIP", "other", "invalid"}
PageNumbers == 0 .. Pages - 1

ASSUME TargetsAssumption ==
  \A t \in Targets :
    /\ t.aps \in Seq(PageNumbers)
    /\ \A p \in PageNumbers :
         /\ t.memory[p].class \in Classes
         /\ t.memory[p].registers \in Nat \X Nat
         /\ t.memory[p].entries \in Seq([offset : PageNumbers, present : BOOLEAN])
         /\ Len(t.memory[p].entries) <= RomEntries

VARIABLES
  target,
  pc,             \* "idle", "identify", "scan", "walk", "table" (in extractROMtable()),
                  \* "scs" (in extractSCScomponent())
  myAccessPorts,  \* their base addresses; its length is APcount
  ap,             \* the access port being extracted
  components,     \* to extract, the current one first: baseAddr and depth
  reply,          \* what detectSystem() returned
  extracted,      \* history: the valid components, in order, with the registers shown
  unread          \* history: <<baseAddr, part>> of the reads that failed

walk == <<myAccessPorts, ap, components, extracted>>
vars == <<target, pc, walk, reply, unread>>

Component(b, d) == [baseAddr |-> b, depth |-> d]
Shown(c, registers) == [component |-> c, registers |-> registers]

Init ==
  /\ target \in Targets
  /\ pc = "idle"
  /\ myAccessPorts = <<>> /\ ap = 0
  /\ components = <<>> /\ extracted = <<>>
  /\ reply = 0
  /\ unread = {}

-----------------------------------------------------------------------------
(* detectSystem() *)

detectSystem ==
  /\ pc = "idle"
  /\ pc' = "identify"
  /\ myAccessPorts' = <<>> /\ ap' = 0
  /\ components' = <<>> /\ extracted' = <<>>
  /\ reply' = 0
  /\ unread' = {}
  /\ UNCHANGED target

ReadIDCODE ==
  /\ pc = "identify"
  /\ pc' = "scan"
  /\ UNCHANGED <<target, walk, reply, unread>>

(* "com Error: ... Aborting!" *)
DetectFails ==
  /\ pc \in {"identify", "scan"}
  /\ pc' = "idle"
  /\ reply' \in {-1, -2, -4}
  /\ UNCHANGED <<target, walk, unread>>

ScanAP_NotCounted ==
  /\ pc = "scan"
  /\ Len(myAccessPorts) >= Len(target.aps)
  /\ pc' = "walk"
  /\ UNCHANGED <<target, walk, reply, unread>>

ScanAP_Unbounded ==
  /\ pc = "scan"
  /\ IF Len(myAccessPorts) < Len(target.aps)
       THEN /\ myAccessPorts' = Append(myAccessPorts, target.aps[Len(myAccessPorts) + 1])
            /\ UNCHANGED pc
       ELSE pc' = "walk" /\ UNCHANGED myAccessPorts
  /\ UNCHANGED <<target, ap, components, extracted, reply, unread>>

(* The next access port, if there is room; its IDR is 0 if it does not exist.    *)
ScanAP ==
  /\ pc = "scan"
  /\ IF Len(myAccessPorts) < MaxAPs /\ Len(myAccessPorts) < Len(target.aps)
       THEN /\ myAccessPorts' = Append(myAccessPorts, target.aps[Len(myAccessPorts) + 1])
            /\ UNCHANGED pc
       ELSE pc' = "walk" /\ UNCHANGED myAccessPorts
  /\ UNCHANGED <<target, ap, components, extracted, reply, unread>>

(* extractAccessPort(): its base component, whatever the port's class.           *)
extractAccessPort ==
  /\ pc = "walk" /\ components = <<>> /\ ap < Len(myAccessPorts)
  /\ components' = <<Component(myAccessPorts[ap + 1], 0)>>
  /\ ap' = ap + 1
  /\ UNCHANGED <<target, pc, myAccessPorts, extracted, reply, unread>>

DetectReturns ==
  /\ pc = "walk" /\ components = <<>> /\ ap = Len(myAccessPorts)
  /\ pc' = "idle"
  /\ UNCHANGED <<target, walk, reply, unread>>

-----------------------------------------------------------------------------
(* extractComponent() *)

This == Head(components)
Memory(b) == target.memory[b]

(* processComponenFields(): the last entry of the table that has the ID.         *)
dbcompclass(id) ==
  LET matches == {i \in DOMAIN arm_comp : arm_comp[i].ID = id} IN
  IF matches = {} THEN "NONE" ELSE arm_comp[Max(matches)].componentClass

(* extractCoreSight(), extractgenericIP(): of the classes that the table knows   *)
(* only a System Control Space has code behind it.                               *)
ShowsRegisters(c) ==
  Memory(c.baseAddr).class \in {"CoreSight", "genericIP"} /\ dbcompclass(Memory(c.baseAddr).id) = "SCS"

(* Valid component registers: a ROM table or the registers of an SCS are read     *)
(* next, the others have nothing below them.                                      *)
extractComponent ==
  /\ pc = "walk" /\ components # <<>>
  /\ Memory(This.baseAddr).class # "invalid"
  /\ extracted' = Append(extracted, Shown(This, <<>>))
  /\ \/ Memory(This.baseAddr).class = "ROM" /\ pc' = "table" /\ UNCHANGED components
     \/ ShowsRegisters(This) /\ pc' = "scs" /\ UNCHANGED components
     \/ /\ Memory(This.baseAddr).class # "ROM" /\ ~ShowsRegisters(This)
        /\ components' = Tail(components) /\ UNCHANGED pc
  /\ UNCHANGED <<target, myAccessPorts, ap, reply, unread>>

(* The registers from CPUID to DEMCR are fetched in several chunks, and stmFetch() *)
(* hands over all of them or, once a chunk fails, none.  Its result is dropped:    *)
(* registers not read are shown as zero.  The first and the last stand for all.    *)
extractSCScomponent(failed) ==
  LET read == Memory(This.baseAddr).registers IN
  /\ pc = "scs"
  /\ pc' = "walk"
  /\ components' = Tail(components)
  /\ extracted' = Front(extracted) \o
       <<Shown(This, IF failed THEN <<0, 0>> ELSE read)>>
  /\ unread' = IF failed THEN unread \cup {<<This.baseAddr, "fetch">>} ELSE unread
  /\ UNCHANGED <<target, myAccessPorts, ap, reply>>

(* "This component seems invalid!": no component there, or its registers could    *)
(* not be read.                                                                   *)
ComponentInvalid(failed) ==
  /\ pc = "walk" /\ components # <<>>
  /\ failed \/ Memory(This.baseAddr).class = "invalid"
  /\ components' = Tail(components)
  /\ unread' = IF failed THEN unread \cup {<<This.baseAddr, "registers">>} ELSE unread
  /\ UNCHANGED <<target, pc, myAccessPorts, ap, extracted, reply>>

calcNewBase_Unsigned(base, offset) ==
  IF offset >= Pages \div 2 THEN base ELSE (base + offset) % Pages

(* Base plus a signed offset, by the two's complement.                           *)
calcNewBaseTwosComplement(base, offset) ==
  IF offset >= Pages \div 2 THEN (base - ((Pages - 1 - offset) + 1)) % Pages
  ELSE (base + offset) % Pages

FirstOf(s, n) == SubSeq(s, 1, Min({n, Len(s)}))

Entries(table) == FirstOf(table.entries, RomEntries)

Listed(c, table) ==
  FlattenSeq([k \in DOMAIN Entries(table) |->
    IF Entries(table)[k].present
    THEN <<Component(calcNewBaseTwosComplement(c.baseAddr, Entries(table)[k].offset), c.depth + 1)>>
    ELSE <<>>])

(* The components that are present, one table level down, come before whatever   *)
(* is left of the tables above.                                                  *)
extractROMtable ==
  /\ pc = "table"
  /\ pc' = "walk"
  /\ components' = Listed(This, Memory(This.baseAddr)) \o Tail(components)
  /\ UNCHANGED <<target, myAccessPorts, ap, extracted, reply, unread>>

(* A table that cannot be read is left, and the walk goes on next to it.          *)
TableFails ==
  /\ pc = "table"
  /\ pc' = "walk"
  /\ components' = Tail(components)
  /\ unread' = unread \cup {<<This.baseAddr, "entries">>}
  /\ UNCHANGED <<target, myAccessPorts, ap, extracted, reply>>

-----------------------------------------------------------------------------

Running ==
  \/ ReadIDCODE \/ ScanAP \/ extractAccessPort \/ DetectReturns
  \/ extractComponent \/ extractROMtable \/ ComponentInvalid(FALSE)
  \/ extractSCScomponent(FALSE)

Failing ==
  \/ DetectFails \/ TableFails \/ ComponentInvalid(TRUE)
  \/ extractSCScomponent(TRUE)

Next == detectSystem \/ Running \/ Failing

Spec == Init /\ [][Next]_vars

(* The program goes on; no transfer has to fail.                                  *)
FairSpec == Spec /\ WF_vars(Running)

-----------------------------------------------------------------------------
(* Properties *)

TypeOK ==
  /\ target \in Targets
  /\ pc \in {"idle", "identify", "scan", "walk", "table", "scs"}
  /\ Len(myAccessPorts) <= MaxAPs
  /\ ap \in 0 .. Len(myAccessPorts)
  /\ \A c \in ToSet(components) : c.baseAddr \in PageNumbers /\ c.depth \in 0..MaxDepth
  /\ reply \in {0, -1, -2, -4}

(* The reference: what lies below page b in a target's tree of components, from   *)
(* the top and from left to right, without what could not be read.  Below[d] is   *)
(* the function for components with at most MaxDepth - d tables below them.  The   *)
(* registers are those of the components whose ID the table gives to an SCS and    *)
(* to nothing else.                                                                *)
Meanings(id) == {arm_comp[i].componentClass : i \in {j \in DOMAIN arm_comp : arm_comp[j].ID = id}}

RegistersOf(b) ==
  IF Memory(b).class \notin {"CoreSight", "genericIP"} \/ Meanings(Memory(b).id) # {"SCS"} THEN <<>>
  ELSE IF <<b, "fetch">> \in unread THEN <<0, 0>> ELSE Memory(b).registers

Below[d \in 0 .. MaxDepth + 1] ==
  [b \in PageNumbers |->
     IF d > MaxDepth \/ Memory(b).class = "invalid" \/ <<b, "registers">> \in unread THEN <<>>
     ELSE <<Shown(Component(b, d), RegistersOf(b))>> \o
          IF Memory(b).class # "ROM" \/ <<b, "entries">> \in unread THEN <<>>
          ELSE FlattenSeq([k \in DOMAIN Memory(b).entries |->
                 LET e == Memory(b).entries[k] IN
                 IF e.present THEN Below[d + 1][(b + e.offset) % Pages] ELSE <<>>])]

(* What the reference says of a target is said of one whose tables are a tree:     *)
(* only one access port or entry leads to a component, and depth gives the tables   *)
(* on the way to it.  The table of known components means an SCS by an ID that has  *)
(* an SCS last, as arm_dbcomponents.inc does.                                       *)
Leads(t, p, k) == t.memory[p].class = "ROM" /\ t.memory[p].entries[k].present
Child(t, p, k) == (p + t.memory[p].entries[k].offset) % Pages
Valid(t, p) == t.memory[p].class # "invalid"
EntriesOf(t, p) == DOMAIN t.memory[p].entries

ASSUME TreeAssumption ==
  \A t \in Targets :
    /\ t.depth \in [PageNumbers -> 0..MaxDepth]
    /\ \A i, j \in DOMAIN t.aps : t.aps[i] = t.aps[j] /\ Valid(t, t.aps[i]) => i = j
    /\ \A p \in PageNumbers : \A j \in EntriesOf(t, p) : Leads(t, p, j) =>
         /\ t.depth[Child(t, p, j)] > t.depth[p]
         /\ Valid(t, Child(t, p, j)) =>
              /\ \A i \in DOMAIN t.aps : t.aps[i] # Child(t, p, j)
              /\ \A q \in PageNumbers : \A k \in EntriesOf(t, q) :
                   Leads(t, q, k) /\ Child(t, q, k) = Child(t, p, j) => p = q /\ j = k

ASSUME KnownAssumption ==
  \A t \in Targets : \A p \in PageNumbers :
    dbcompclass(t.memory[p].id) = "SCS" => Meanings(t.memory[p].id) = {"SCS"}

(* -info shows every component that the first access port reaches once, in order  *)
(* and at its depth, with the registers of those that are a System Control Space,  *)
(* all of them zero if a part of their fetch failed.  Any other read that fails     *)
(* takes away what is below it and nothing else, and a failure during the scan for *)
(* access ports everything (extractComponent(), extractROMtable(),                 *)
(* extractSCScomponent(), detectSystem()).                                         *)
WalkComplete ==
  pc = "idle" =>
    extracted = IF reply < 0 \/ ap = 0 THEN <<>>
                ELSE FlattenSeq([k \in DOMAIN FirstOf(target.aps, MaxAPs) |->
                                   Below[0][target.aps[k]]])

(* detectSystem() returns: the recursion over a tree of tables ends.               *)
DetectSystemReturns == pc # "idle" ~> pc = "idle"

=============================================================================
