---------------------------- MODULE ToolsProofs ----------------------------
(***************************************************************************)
(* The programs run by hand, for every input they can be given: first that *)
(* a tool keeps to the input it was started with, then one part for each   *)
(* tool, and the theorems.                                                 *)
(***************************************************************************)
EXTENDS Tools, AnswerProofs

-----------------------------------------------------------------------------
(* One tool, one input *)

\* What each program is started with.
InputGiven ==
  /\ which \in {"doctor", "environment"} => job \in Machines
  /\ which = "audit" => job \in Banks
  /\ which = "freeze" => job \in Freezes
  /\ which = "verify" => job \in Compared
  /\ which = "find" => job \in Searches
  /\ which = "map" => job \in Tagged
  /\ which = "analyse" => job \in Chunked
  /\ which = "shape" => job \in Sheets

\* No step changes which tool is running or what it was given.
LEMMA InputStays ==
  ASSUME [ToolsNext]_toolVars
  PROVE  which' = which /\ job' = job
<1>1. CASE UNCHANGED toolVars
  BY <1>1 DEF toolVars, logVars
<1>2. CASE which \in LogTools /\ LogsNext /\ UNCHANGED <<job, benchVars, rebuildVars>>
  <2> SUFFICES which' = which
    BY <1>2
  <2>1. ASSUME NEW b, NEW intact, Header(b, intact) PROVE which' = which
    BY <2>1 DEF Header
  <2>2. ASSUME NEW steps, Scan(steps) PROVE which' = which
    BY <2>2 DEF Scan
  <2>3. ASSUME NEW main, NEW nmi, NEW burst, EndFrame(main, nmi, burst) PROVE which' = which
    BY <2>3 DEF EndFrame
  <2>4. CASE Finish \/ Refused \/ Died \/ SecondImage \/ Usage
    <3>1. CASE Finish
      BY <3>1 DEF Finish
    <3>2. CASE Refused \/ Died
      BY <3>2 DEF Refused, Died
    <3>3. CASE SecondImage \/ Usage
      BY <3>3 DEF SecondImage, Usage
    <3> QED
      BY <2>4, <3>1, <3>2, <3>3
  <2>5. CASE CompareAudio \/ TourAudio \/ ValidateAll \/ StageDiff
    <3>1. \A exit : Conclude(exit) => which' = which
      BY DEF Conclude
    <3> QED
      BY <2>5, <3>1, Zenon DEF CompareAudio, TourAudio, ValidateAll, StageDiff
  <2> QED
    BY <1>2, <2>1, <2>2, <2>3, <2>4, <2>5 DEF LogsNext
<1>3. ASSUME NEW program, NEW exit, Answers(program, exit) PROVE which' = which /\ job' = job
  BY <1>3 DEF Answers
<1>4. CASE \/ which = "driver" /\ BenchNext /\ UNCHANGED <<logVars, job, rebuildVars>>
           \/ which = "rebuild" /\ code = -1 /\ RebuildNext /\ UNCHANGED <<logVars, job, benchVars>>
  BY <1>4 DEF logVars
<1> QED
  BY <1>1, <1>2, <1>3, <1>4, Zenon DEF ToolsNext

\* A program has what it was started with, for as long as it runs.
THEOREM InputsAreKept == ToolsSpec => []InputGiven
<1>1. ToolsInit => InputGiven
  BY DEF ToolsInit, OtherInit, LogsInit, LogTools, InputGiven
<1>2. InputGiven /\ [ToolsNext]_toolVars => InputGiven'
  BY InputStays DEF InputGiven
<1> QED
  BY <1>1, <1>2, PTL DEF ToolsSpec

-----------------------------------------------------------------------------
(* The rebuild of every variant *)

AllVariants == {Variants[n] : n \in 1 .. 8}

\* What a run that gets to the end leaves of a variant.
Made(v) ==
  [form \in Forms |->
     IF form = "cart" THEN Cart(v, TRUE)
     ELSE IF form = "bypass" THEN BYPASS(v, Cart(v, TRUE))
     ELSE entries_for(v, image_source(v[2], BYPASS(v, Cart(v, TRUE))))]

\* build/all with every variant before number t made, and of that one the
\* forms w; the rest is as in b.
LaidOut(t, w, b) ==
  [v \in AllVariants |-> [form \in Forms |->
     IF \E n \in 1 .. t : v = Variants[n] /\ (n = t => form \in w) THEN Made(v)[form]
     ELSE b[v][form]]]

\* The forms of the variant under way that this run has written.
WrittenForms ==
  IF phase \in {"patch", "stage"} THEN {}
  ELSE IF phase \in {"copy cart", "assemble", "collect"} THEN {"cart"}
  ELSE IF phase \in {"unlink", "build"} THEN {"cart", "bypass"}
  ELSE Forms

\* What build.py and its caller have left in asm/ for it.
Staged ==
  IF phase = "assemble" THEN Made(Here)["cart"]
  ELSE IF phase \in {"collect", "unlink"} THEN Made(Here)["bypass"]
  ELSE Missing

Phases == {"patch", "stage", "copy cart", "assemble", "collect", "unlink", "build", "done"}

\* build/all is what this run has written up to where it is and what an
\* earlier one left beyond it; asm/ holds the variant under way or nothing.
RebuildInv ==
  /\ turn \in 1 .. 8 /\ phase \in Phases
  /\ phase = "patch" => turn = 1
  /\ phase = "done" => turn = 8
  /\ before \in {Files({}), Files(AllVariants), Files({Variants[4]})}
  /\ all = LaidOut(turn, WrittenForms, before)
  /\ produced = [v \in AllVariants |-> IF v = Here THEN Staged ELSE Missing]
  /\ code \in {-1, 0, DIED}
  /\ code = 0 => phase = "done"

\* The variants, one by one: four of either region.
LEMMA VariantList ==
  /\ DOMAIN Variants = 1 .. 8
  /\ Variants[1] = <<"usa", "base">> /\ Variants[2] = <<"usa", "spc">>
  /\ Variants[3] = <<"usa", "sa">> /\ Variants[4] = <<"usa", "both">>
  /\ Variants[5] = <<"jp", "base">> /\ Variants[6] = <<"jp", "spc">>
  /\ Variants[7] = <<"jp", "sa">> /\ Variants[8] = <<"jp", "both">>
<1>1. DOMAIN Variants = 1 .. 8
  BY DEF Variants
<1>2. \A n \in 1 .. 8 : Variants[n] = <<Lands[(n + 3) \div 4], Names[((n - 1) % 4) + 1]>>
  BY DEF Variants
<1>3. /\ (1 + 3) \div 4 = 1 /\ (2 + 3) \div 4 = 1 /\ (3 + 3) \div 4 = 1 /\ (4 + 3) \div 4 = 1
      /\ (5 + 3) \div 4 = 2 /\ (6 + 3) \div 4 = 2 /\ (7 + 3) \div 4 = 2 /\ (8 + 3) \div 4 = 2
  OBVIOUS
<1>4. /\ (1 - 1) % 4 = 0 /\ (2 - 1) % 4 = 1 /\ (3 - 1) % 4 = 2 /\ (4 - 1) % 4 = 3
      /\ (5 - 1) % 4 = 0 /\ (6 - 1) % 4 = 1 /\ (7 - 1) % 4 = 2 /\ (8 - 1) % 4 = 3
  OBVIOUS
<1>5. Lands[1] = "usa" /\ Lands[2] = "jp"
  BY DEF Lands
<1>6. Names[1] = "base" /\ Names[2] = "spc" /\ Names[3] = "sa" /\ Names[4] = "both"
  BY DEF Names
<1> QED
  BY <1>1, <1>2, <1>3, <1>4, <1>5, <1>6

\* No variant is listed twice, and each is a region and a name.
LEMMA VariantsDiffer ==
  /\ \A n, m \in 1 .. 8 : Variants[n] = Variants[m] => n = m
  /\ \A v \in AllVariants : v[2] \in {"base", "spc", "sa", "both"}
<1> DEFINE Key(v) == (IF v[1] = "usa" THEN 0 ELSE 4) +
                      (IF v[2] = "base" THEN 1 ELSE IF v[2] = "spc" THEN 2 ELSE IF v[2] = "sa" THEN 3 ELSE 4)
<1>1. \A n \in 1 .. 8 : n = 1 \/ n = 2 \/ n = 3 \/ n = 4 \/ n = 5 \/ n = 6 \/ n = 7 \/ n = 8
  OBVIOUS
<1>2. \A n \in 1 .. 8 : Key(Variants[n]) = n
  BY <1>1, VariantList
<1>3. \A n \in 1 .. 8 : Variants[n][2] \in {"base", "spc", "sa", "both"}
  BY <1>1, VariantList
<1> HIDE DEF Key
<1> QED
  BY <1>2, <1>3, Zenon DEF AllVariants

Refiled(files, v, form, file) == [files EXCEPT ![v][form] = file]

\* Writing the next form of the variant under way.
LEMMA FormWritten ==
  ASSUME NEW t \in 1 .. 8, NEW w, NEW f \in Forms, NEW b
  PROVE  Refiled(LaidOut(t, w, b), Variants[t], f, Made(Variants[t])[f]) = LaidOut(t, w \cup {f}, b)
<1> DEFINE laid == LaidOut(t, w, b)
           more == LaidOut(t, w \cup {f}, b)
           next == [laid EXCEPT ![Variants[t]][f] = Made(Variants[t])[f]]
           In(v, form, u) == \E n \in 1 .. t : v = Variants[n] /\ (n = t => form \in u)
<1>1. Variants[t] \in AllVariants
  BY DEF AllVariants
<1>2. \A v \in AllVariants, form \in Forms :
        In(v, form, w \cup {f}) <=> In(v, form, w) \/ (v = Variants[t] /\ form = f)
  BY VariantsDiffer
<1>3. laid = [v \in AllVariants |-> [form \in Forms |-> IF In(v, form, w) THEN Made(v)[form] ELSE b[v][form]]]
  BY DEF LaidOut
<1>4. more = [v \in AllVariants |-> [form \in Forms |->
                IF In(v, form, w \cup {f}) THEN Made(v)[form] ELSE b[v][form]]]
  BY DEF LaidOut
<1> HIDE DEF laid, more, In
<1>5. next = [v \in AllVariants |-> [form \in Forms |->
                IF v = Variants[t] /\ form = f THEN Made(v)[form] ELSE laid[v][form]]]
  BY <1>1, <1>3
<1>6. ASSUME NEW v \in AllVariants, NEW form \in Forms PROVE next[v][form] = more[v][form]
  BY <1>2, <1>3, <1>4, <1>5
<1>7. next = [v \in AllVariants |-> [form \in Forms |-> more[v][form]]]
  <2> HIDE DEF next
  <2> QED BY <1>5, <1>6
<1>8. more = [v \in AllVariants |-> [form \in Forms |-> more[v][form]]]
  BY <1>4
<1> QED
  BY <1>7, <1>8 DEF laid, more, Refiled

\* A variant with every form written is done, and the next one has none.
LEMMA VariantDone ==
  ASSUME NEW t \in 1 .. 7, NEW b
  PROVE  LaidOut(t, Forms, b) = LaidOut(t + 1, {}, b)
<1>1. ASSUME NEW v \in AllVariants, NEW form \in Forms
      PROVE  (\E n \in 1 .. t : v = Variants[n] /\ (n = t => form \in Forms))
               <=> (\E n \in 1 .. t + 1 : v = Variants[n] /\ (n = t + 1 => form \in {}))
  OBVIOUS
<1> QED
  BY <1>1 DEF LaidOut

\* A rebuild starts with what an earlier run left and nothing else.
LEMMA RebuildInvInit ==
  ASSUME RebuildInit, code = -1
  PROVE  RebuildInv
<1>1. turn = 1 /\ phase = "patch" /\ WrittenForms = {}
  BY DEF RebuildInit, WrittenForms
<1>2. before \in {Files({}), Files(AllVariants), Files({Variants[4]})} /\ all = before
  BY DEF RebuildInit, AllVariants
<1>3. before = LaidOut(1, {}, before)
  <2>1. \E built : before = Files(built)
    BY <1>2
  <2>2. before = [v \in AllVariants |-> [form \in Forms |-> before[v][form]]]
    BY <2>1 DEF Files, AllVariants
  <2>3. \A v \in AllVariants, form \in Forms : ~\E n \in 1 .. 1 : v = Variants[n] /\ (n = 1 => form \in {})
    OBVIOUS
  <2> QED
    BY <2>2, <2>3 DEF LaidOut
<1>4. produced = [v \in AllVariants |-> IF v = Here THEN Staged ELSE Missing]
  BY <1>1 DEF RebuildInit, AllVariants, Staged
<1> QED
  BY <1>1, <1>2, <1>3, <1>4 DEF RebuildInv, Phases

\* Every step of a rebuild keeps what is in build/all and in asm/ accounted for.
LEMMA RebuildInvStep ==
  ASSUME RebuildInv, RebuildNext, UNCHANGED code, code = -1
  PROVE  RebuildInv'
<1> DEFINE v0 == Variants[turn]
<1>1. /\ Here = v0 /\ v0 \in AllVariants /\ turn \in 1 .. 8
      /\ all = LaidOut(turn, WrittenForms, before)
      /\ produced = [v \in AllVariants |-> IF v = Here THEN Staged ELSE Missing]
  BY DEF RebuildInv, Here, AllVariants
<1>2. /\ Made(v0)["cart"] = Cart(v0, TRUE)
      /\ Made(v0)["bypass"] = BYPASS(v0, Cart(v0, TRUE))
      /\ Made(v0)["free"] = entries_for(v0, image_source(v0[2], BYPASS(v0, Cart(v0, TRUE))))
  BY DEF Made, Forms
<1>a. ASSUME NEW w, NEW f \in Forms
      PROVE  [LaidOut(turn, w, before) EXCEPT ![v0][f] = Made(v0)[f]] = LaidOut(turn, w \cup {f}, before)
  <2>1. Refiled(LaidOut(turn, w, before), v0, f, Made(v0)[f]) = LaidOut(turn, w \cup {f}, before)
    BY <1>1, <1>a, FormWritten
  <2> QED
    BY <2>1, Zenon DEF Refiled
<1>b. "cart" \in Forms /\ "bypass" \in Forms /\ "free" \in Forms
  BY DEF Forms
<1>3. SUFFICES /\ turn' \in 1 .. 8 /\ phase' \in Phases
               /\ phase' = "patch" => turn' = 1
               /\ phase' = "done" => turn' = 8
               /\ UNCHANGED before
               /\ all' = LaidOut(turn', WrittenForms', before)
               /\ produced' = [v \in AllVariants |-> IF v = Here' THEN Staged' ELSE Missing]
  BY DEF RebuildInv
<1>4. CASE Patch
  <2>1. phase = "patch" /\ phase' = "stage" /\ UNCHANGED <<turn, produced, all, before>>
    BY <1>4 DEF Patch, Goes
  <2>2. UNCHANGED <<WrittenForms, Here, Staged>>
    BY <2>1 DEF WrittenForms, Here, Staged
  <2> QED
    BY <1>1, <2>1, <2>2 DEF Phases
<1>5. CASE StageCart
  <2>1. /\ phase = "stage" /\ phase' = "copy cart" /\ UNCHANGED <<turn, produced, before>>
        /\ all' = [all EXCEPT ![v0]["cart"] = Made(v0)["cart"]]
    BY <1>1, <1>2, <1>5 DEF StageCart, Goes, WritesAll
  <2>2. UNCHANGED <<Here, Staged>> /\ WrittenForms = {} /\ WrittenForms' = {} \cup {"cart"}
    BY <2>1 DEF WrittenForms, Here, Staged
  <2>3. all' = LaidOut(turn, {} \cup {"cart"}, before)
    <3> HIDE DEF v0
    <3> QED BY <1>a, <1>b, <1>1, <2>1, <2>2, Zenon
  <2> QED
    BY <1>1, <2>1, <2>2, <2>3 DEF Phases
<1>6. ASSUME phase \in {"copy cart", "assemble", "collect", "unlink"}
      PROVE  LaidOut(turn, WrittenForms, before)[v0]["cart"] = Made(v0)["cart"]
  <2>1. turn \in 1 .. turn /\ v0 = Variants[turn]
    BY <1>1
  <2>2. "cart" \in WrittenForms
    BY <1>6 DEF WrittenForms, Forms
  <2> HIDE DEF v0
  <2> QED
    BY <1>1, <1>b, <2>1, <2>2 DEF LaidOut
<1>7. CASE CopyCart
  <2>1. /\ phase = "copy cart" /\ phase' = "assemble" /\ UNCHANGED <<turn, all, before>>
        /\ produced' = [produced EXCEPT ![v0] = all[v0]["cart"]]
    BY <1>1, <1>7 DEF CopyCart, Goes
  <2>2. UNCHANGED <<Here, WrittenForms>> /\ Staged = Missing /\ Staged' = Made(v0)["cart"]
    BY <1>1, <2>1 DEF WrittenForms, Here, Staged
  <2>3. all[v0]["cart"] = Made(v0)["cart"]
    BY <1>1, <1>6, <2>1
  <2>4. produced' = [v \in AllVariants |-> IF v = Here' THEN Staged' ELSE Missing]
    BY <1>1, <2>1, <2>2, <2>3
  <2> QED
    BY <1>1, <2>1, <2>2, <2>4 DEF Phases
<1>8. CASE Assemble
  <2>1. /\ phase = "assemble" /\ phase' = "collect" /\ UNCHANGED <<turn, all, before>>
        /\ produced' = [produced EXCEPT ![v0] = BYPASS(v0, produced[v0])]
    BY <1>1, <1>8 DEF Assemble, Goes
  <2>2. UNCHANGED <<Here, WrittenForms>> /\ Staged = Made(v0)["cart"] /\ Staged' = Made(v0)["bypass"]
    BY <1>1, <2>1 DEF WrittenForms, Here, Staged
  <2>3. BYPASS(v0, produced[v0]) = Made(v0)["bypass"]
    BY <1>1, <1>2, <2>2
  <2>4. produced' = [v \in AllVariants |-> IF v = Here' THEN Staged' ELSE Missing]
    BY <1>1, <2>1, <2>2, <2>3
  <2> QED
    BY <1>1, <2>1, <2>2, <2>4 DEF Phases
<1>9. CASE Collect
  <2>1. /\ phase = "collect" /\ phase' = "unlink" /\ UNCHANGED <<turn, produced, before>>
        /\ all' = [all EXCEPT ![v0]["bypass"] = produced[v0]]
    BY <1>1, <1>9 DEF Collect, Goes, WritesAll
  <2>2. /\ UNCHANGED <<Here, Staged>> /\ Staged = Made(v0)["bypass"]
        /\ WrittenForms = {"cart"} /\ WrittenForms' = {"cart"} \cup {"bypass"}
    BY <1>1, <2>1 DEF WrittenForms, Here, Staged
  <2>3. all' = [all EXCEPT ![v0]["bypass"] = Made(v0)["bypass"]]
    BY <1>1, <2>1, <2>2
  <2>4. all' = LaidOut(turn, {"cart"} \cup {"bypass"}, before)
    <3> HIDE DEF v0
    <3> QED BY <1>a, <1>b, <1>1, <2>2, <2>3, Zenon
  <2> QED
    BY <1>1, <2>1, <2>2, <2>4 DEF Phases
<1>10. CASE Unlink
  <2>1. /\ phase = "unlink" /\ phase' = "build" /\ UNCHANGED <<turn, all, before>>
        /\ produced' = [produced EXCEPT ![v0] = Missing]
    BY <1>1, <1>10 DEF Unlink, Goes
  <2>2. UNCHANGED <<Here, WrittenForms>> /\ Staged' = Missing
    BY <1>1, <2>1 DEF WrittenForms, Here, Staged
  <2>3. produced' = [v \in AllVariants |-> IF v = Here' THEN Staged' ELSE Missing]
    BY <1>1, <2>1, <2>2
  <2> QED
    BY <1>1, <2>1, <2>2, <2>3 DEF Phases
<1>11. CASE Build
  <2>1. /\ phase = "build" /\ phase' = (IF turn = 8 THEN "done" ELSE "stage")
        /\ turn' = (IF turn = 8 THEN 8 ELSE turn + 1) /\ UNCHANGED <<produced, before>>
        /\ all' = [all EXCEPT ![v0]["free"] = entries_for(v0, image_source(v0[2], all[v0]["bypass"]))]
    BY <1>1, <1>11 DEF Build, Goes, WritesAll
  <2>2. Staged = Missing /\ WrittenForms = {"cart", "bypass"} /\ Staged' = Missing
        /\ WrittenForms' = (IF turn = 8 THEN Forms ELSE {})
    BY <1>1, <2>1 DEF WrittenForms, Here, Staged
  <2>3. all[v0]["bypass"] = Made(v0)["bypass"]
    BY <1>1, <2>2 DEF LaidOut, Forms
  <2>4. all' = [all EXCEPT ![v0]["free"] = Made(v0)["free"]]
    BY <1>2, <2>1, <2>3
  <2>5. all' = LaidOut(turn, {"cart", "bypass"} \cup {"free"}, before)
    <3> HIDE DEF v0
    <3> QED BY <1>a, <1>b, <1>1, <2>2, <2>4, Zenon
  <2>6. {"cart", "bypass"} \cup {"free"} = Forms
    BY DEF Forms
  <2>7. all' = LaidOut(turn', WrittenForms', before)
    <3>1. CASE turn = 8
      BY <2>1, <2>2, <2>5, <2>6, <3>1
    <3>2. CASE turn # 8
      <4>1. turn \in 1 .. 7
        BY <1>1, <3>2
      <4> QED
        BY <2>1, <2>2, <2>5, <2>6, <3>2, <4>1, VariantDone
    <3> QED
      BY <3>1, <3>2
  <2>8. produced' = [v \in AllVariants |-> IF v = Here' THEN Staged' ELSE Missing]
    BY <1>1, <2>1, <2>2
  <2>9. /\ turn' \in 1 .. 8 /\ phase' \in Phases
        /\ phase' # "patch" /\ (phase' = "done" => turn' = 8)
    BY <1>1, <2>1 DEF Phases
  <2> QED
    BY <2>1, <2>7, <2>8, <2>9
<1> QED
  BY <1>4, <1>5, <1>7, <1>8, <1>9, <1>10, <1>11 DEF RebuildNext

\* A rebuild that is where the invariant says leaves no mixture behind.
LEMMA RebuildInvSound == RebuildInv => RebuildSound(code)
<1> SUFFICES ASSUME RebuildInv PROVE RebuildSound(code)
  OBVIOUS
<1>1. /\ turn \in 1 .. 8 /\ all = LaidOut(turn, WrittenForms, before)
      /\ produced = [v \in AllVariants |-> IF v = Here THEN Staged ELSE Missing]
      /\ before \in {Files({}), Files(AllVariants), Files({Variants[4]})}
  BY DEF RebuildInv
<1>2. DOMAIN all = AllVariants /\ DOMAIN produced = AllVariants /\ DOMAIN Variants = 1 .. 8
  BY <1>1, VariantList DEF LaidOut
<1>3. \A v \in AllVariants, form \in Forms :
        before[v][form] \in {Kept(v, form), Missing}
  BY <1>1 DEF Files, AllVariants
<1>4. ASSUME NEW v \in AllVariants, LET free == all[v]["free"] IN free # Missing
      PROVE  LET free == all[v]["free"]
             IN  /\ free.land = region_of(v) /\ free.bypass = v[1] /\ free.streams = v[1]
                 /\ ("gamefixes" \in free.patches) = carries_game_fixes(v)
                 /\ ("prefight" \in free.patches) = ("table" \in free.extra)
                 /\ free.fresh => /\ all[v]["cart"].fresh /\ all[v]["bypass"].fresh
                                  /\ all[v]["bypass"].patches = variants(v[2])
  <2>0. v[2] \in {"base", "spc", "sa", "both"}
    BY VariantsDiffer
  <2>1. CASE all[v]["free"] = Kept(v, "free")
    <3> DEFINE free == Kept(v, "free")
    <3>1. /\ free.land = v[1] /\ free.bypass = v[1] /\ free.streams = v[1] /\ free.fresh = FALSE
          /\ free.extra = (IF v[2] = "both" THEN {"table"} ELSE {})
          /\ free.patches = variants(v[2]) \cup (IF v[2] = "both" THEN {"prefight"} ELSE {})
      BY DEF Kept, Cart, BYPASS, Missing
    <3> HIDE DEF free
    <3> QED
      BY <2>0, <2>1, <3>1 DEF free, variants, region_of, carries_game_fixes
  <2>2. CASE /\ all[v]["free"] = Made(v)["free"]
             /\ all[v]["cart"] = Made(v)["cart"] /\ all[v]["bypass"] = Made(v)["bypass"]
    <3> DEFINE free == Made(v)["free"]
    <3>1. /\ free.land = v[1] /\ free.bypass = v[1] /\ free.streams = v[1]
          /\ free.extra = (IF v[2] = "both" THEN {"table"} ELSE {})
          /\ free.patches = variants(v[2]) \cup (IF v[2] = "both" THEN {"prefight"} ELSE {})
      BY DEF Made, Forms, Cart, BYPASS, Missing, entries_for, image_source, PREFIGHT_VARIANT
    <3>2. /\ Made(v)["cart"].fresh /\ Made(v)["bypass"].fresh
          /\ Made(v)["bypass"].patches = variants(v[2])
      BY DEF Made, Forms, Cart, BYPASS, Missing
    <3> HIDE DEF free
    <3> QED
      BY <2>0, <2>2, <3>1, <3>2 DEF free, variants, region_of, carries_game_fixes
  <2>3. CASE \E n \in 1 .. turn : v = Variants[n] /\ (n = turn => "free" \in WrittenForms)
    <3>1. "free" \in WrittenForms => WrittenForms = Forms
      BY DEF WrittenForms, Forms
    <3> QED
      BY <1>1, <2>2, <2>3, <3>1 DEF LaidOut, Forms
  <2>4. CASE ~\E n \in 1 .. turn : v = Variants[n] /\ (n = turn => "free" \in WrittenForms)
    <3>1. all[v]["free"] = before[v]["free"]
      BY <1>1, <2>4 DEF LaidOut, Forms
    <3> QED
      BY <1>3, <1>4, <2>1, <3>1 DEF Forms
  <2> QED
    BY <2>3, <2>4
<1>5. ASSUME NEW n \in 1 .. 8, n > turn PROVE all[Variants[n]] = before[Variants[n]]
  <2>1. Variants[n] \in AllVariants
    BY DEF AllVariants
  <2>2. \A m \in 1 .. turn : Variants[n] # Variants[m]
    BY <1>1, <1>5, VariantsDiffer
  <2>3. all[Variants[n]] = [form \in Forms |-> before[Variants[n]][form]]
    BY <1>1, <2>1, <2>2 DEF LaidOut
  <2>4. before[Variants[n]] = [form \in Forms |-> before[Variants[n]][form]]
    BY <1>1, <2>1 DEF Files, AllVariants
  <2> QED
    BY <2>3, <2>4
<1>6. \A v \in AllVariants : produced[v] # Missing => v = Here
  BY <1>1
<1>7. ASSUME code = 0
      PROVE  /\ \A v \in AllVariants, form \in Forms : all[v][form].fresh
             /\ \A v \in AllVariants : produced[v] = Missing
  <2>1. turn = 8 /\ WrittenForms = Forms /\ Staged = Missing
    BY <1>7 DEF RebuildInv, WrittenForms, Staged
  <2>2. \A v \in AllVariants, form \in Forms : all[v][form] = Made(v)[form]
    BY <1>1, <2>1 DEF LaidOut, AllVariants
  <2>3. \A v \in AllVariants, form \in Forms : Made(v)[form].fresh
    BY DEF Made, Forms, Cart, BYPASS, Missing, entries_for, image_source, PREFIGHT_VARIANT
  <2> QED
    BY <1>1, <2>1, <2>2, <2>3
<1> QED
  BY <1>2, <1>4, <1>5, <1>6, <1>7 DEF RebuildSound

\* Every rebuild is where the invariant says, for any earlier contents of
\* build/all that the runs start from.
THEOREM RebuildInvariant == ToolsSpec => [](which = "rebuild" => RebuildInv)
<1>1. ToolsInit /\ which = "rebuild" => RebuildInv
  <2> SUFFICES ASSUME ToolsInit, which = "rebuild" PROVE RebuildInv
    OBVIOUS
  <2>1. RebuildInit /\ code = -1
    BY DEF ToolsInit, OtherInit, LogsInit, LogTools, Begin
  <2> QED
    BY <2>1, RebuildInvInit
<1>2. (which = "rebuild" => RebuildInv) /\ [ToolsNext]_toolVars => (which = "rebuild" => RebuildInv)'
  <2> SUFFICES ASSUME which = "rebuild" => RebuildInv, [ToolsNext]_toolVars, which' = "rebuild"
               PROVE  RebuildInv'
    OBVIOUS
  <2>1. which = "rebuild" /\ RebuildInv
    BY InputStays
  <2>2. ASSUME UNCHANGED rebuildVars, code' = code \/ code' = DIED \/ (code' = 0 /\ phase = "done")
        PROVE  RebuildInv'
    <3>1. UNCHANGED <<turn, phase, produced, all, before>>
      BY <2>2 DEF rebuildVars
    <3>2. UNCHANGED <<WrittenForms, Staged>> /\ Here' = Here
      BY <3>1 DEF WrittenForms, Staged, Here
    <3> QED
      BY <2>1, <2>2, <3>1, <3>2 DEF RebuildInv, DIED
  <2>3. ASSUME NEW exit, Answers("rebuild", exit), exit = DIED \/ (exit = 0 /\ phase = "done")
        PROVE  RebuildInv'
    BY <2>2, <2>3 DEF Answers
  <2>4. CASE code = -1 /\ RebuildNext /\ UNCHANGED <<logVars, job, benchVars>>
    BY <2>1, <2>4, RebuildInvStep DEF logVars
  <2>5. CASE UNCHANGED toolVars
    BY <2>2, <2>5 DEF toolVars, logVars
  <2>6. \A program, exit : Answers(program, exit) => program = "rebuild"
    BY <2>1 DEF Answers
  <2>7. "rebuild" \notin LogTools
    BY DEF LogTools
  <2> QED
    BY <2>1, <2>3, <2>4, <2>5, <2>6, <2>7 DEF ToolsNext
<1> QED
  BY <1>1, <1>2, PTL DEF ToolsSpec

\* However a rebuild ends, no image it leaves is a mixture of regions,
\* variants or runs, and a run that ends well has rebuilt everything.
THEOREM RebuildsAreSound == ToolsSpec => []RebuildRight
<1>1. (which = "rebuild" => RebuildInv) => RebuildRight
  BY RebuildInvSound DEF RebuildRight
<1> QED
  BY <1>1, RebuildInvariant, PTL

-----------------------------------------------------------------------------
(* The tools that answer in one step *)

\* DiagnosisRight holds of doctor.main and environment.main on every machine
\* there is: an answer of zero means what a build goes on to need.
THEOREM DiagnosesAreRight == ToolsSpec => []DiagnosisRight
<1>1. InputGiven => DiagnosisRight
  <2>1. \A m \in Machines : DoctorForesees(m) /\ MachineForeseen(m)
    BY MachinesGiven, DoctorIsRight, MachineIsRight
  <2> QED
    BY <2>1 DEF InputGiven, DiagnosisRight
<1> QED
  BY <1>1, InputsAreKept, PTL

\* BankAudited holds of sample_audit.main for every bank and upload there is.
THEOREM BanksAreAudited == ToolsSpec => []BankAudited
<1> DEFINE ShortRefused == which = "audit" /\ ~Readable(job.ram) => code \in {-1, DIED}
<1>1. ToolsInit => ShortRefused
  BY DEF ToolsInit, OtherInit, LogsInit, LogTools, Begin
<1>2. ShortRefused /\ [ToolsNext]_toolVars => ShortRefused'
  <2> SUFFICES ASSUME ShortRefused, [ToolsNext]_toolVars, which' = "audit", ~Readable(job'.ram)
               PROVE  code' \in {-1, DIED}
    OBVIOUS
  <2>1. which = "audit" /\ job' = job
    BY InputStays
  <2>2. CASE ToolsNext
    <3>1. Answers("audit", IF Readable(job.ram) THEN 0 ELSE DIED)
      BY <2>1, <2>2 DEF ToolsNext, Answers, LogTools
    <3> QED
      BY <2>1, <3>1 DEF Answers
  <2>3. CASE UNCHANGED toolVars
    BY <2>1, <2>3 DEF toolVars, logVars
  <2> QED
    BY <2>2, <2>3
<1>3. InputGiven /\ ShortRefused => BankAudited
  BY BanksGiven, AuditIsRight DEF InputGiven, BankAudited
<1> QED
  BY <1>1, <1>2, <1>3, InputsAreKept, PTL DEF ToolsSpec

\* FreezeRight holds of freeze_spcfast.main for every pair of cartridges and
\* every table there is.
THEOREM FreezesAreRight == ToolsSpec => []FreezeRight
<1>1. InputGiven => FreezeRight
  BY FreezesGiven, FreezeIsFaithful DEF InputGiven, FreezeRight
<1> QED
  BY <1>1, InputsAreKept, PTL

\* The streams are called identical exactly when they are.
THEOREM VerdictsAreRight == ToolsSpec => []VerdictRight
<1>1. InputGiven => VerdictRight
  BY ComparedGiven, VerdictIsExact DEF InputGiven, VerdictRight
<1> QED
  BY <1>1, InputsAreKept, PTL

\* What the searches, the map, the comparison of images and the tile figures
\* report is all there is, of every cartridge, image and table there is.
THEOREM StreamsAreFound == ToolsSpec => []StreamsFound
<1>1. ASSUME InputGiven, which = "find" PROVE SearchExact(job.outs, job.reference, job.slots, job.slots)
  <2>1. job.outs \in Seq(Seq(Nat)) /\ job.reference \in Seq(Nat)
    BY <1>1, SearchesGiven DEF InputGiven, IsSearch
  <2> QED
    BY <2>1, SearchIsExact
<1>2. ASSUME InputGiven, which = "map" PROVE MapWhole(job.tagged, job.size)
  <2>1. job.tagged \in Seq(Nat) /\ job.size \in Nat \cup {UnknownLength}
    BY <1>2, TaggedGiven DEF InputGiven, IsTagged
  <2> QED
    BY <2>1, MapIsWhole
<1>3. ASSUME InputGiven, which = "analyse" PROVE NoveltyBounded(job.original, job.added, 2, 1)
  <2>1. job.original \in Seq(Nat) /\ job.added \in Seq(Nat)
    BY <1>3, ChunkedGiven DEF InputGiven, IsChunked
  <2> QED
    BY <2>1, NoveltyIsBounded
<1>4. ASSUME InputGiven, which = "shape" PROVE ShapeMeasured(Table(job), job.limit, job.outs, job.noise)
  <2>1. IsSheet(Table(job), job.limit, job.outs, job.noise)
    BY <1>4, SheetsGiven DEF InputGiven, Table
  <2> QED
    BY <2>1, ShapeIsMeasured
<1>5. InputGiven => StreamsFound
  BY <1>1, <1>2, <1>3, <1>4 DEF StreamsFound
<1> QED
  BY <1>5, InputsAreKept, PTL

-----------------------------------------------------------------------------
(* The driver run by itself *)

\* The runs there are.
BenchRuns ==
  UNION {{deliver_one_at_a_time(p), deliver(p), on_hardware("byteLoop", spread(p), FIRST_COUNTER, UNECHOED)}
           \cup {on_hardware("tripleLoop", p, c, u) : c \in {0, 1}, u \in {0, UNECHOED}} : p \in Payloads}
RightRun(r) == r.counter = FIRST_COUNTER /\ (r.unit => r.unechoed # 0)

\* How many handshakes a run takes, and the byte it lays out at a place.
Triples(r) == (Len(r.laid) + 2) \div TRIPLE
LaidAt(laid, n) == IF n <= Len(laid) THEN laid[n] ELSE 0
MemoryEnd == ByteValues * RamPages

\* Where a right run is: the labels of its loop, and those past the
\* acknowledgement, the answer to which counts the triple before it is stored.
LoopLabels(r) ==
  IF r.entry = "byteLoop" THEN {"byteLoop", "byteRead", "byteEcho", "byteStore"}
  ELSE {"tripleLoop", "storeOne", "readTwo", "readThree", "tripleEcho", "storeThree", "storeTwo"}
PastEcho == {"byteStore", "storeThree", "storeTwo"}
Current == IF dpc \in PastEcho /\ ~owed THEN console.handshakes - 1 ELSE console.handshakes

\* The handshake: what is posted, what was seen and what is owed.
HandshakeRight ==
  LET h == console.handshakes
  IN  /\ h \in 0 .. Triples(Run) /\ console.at = TRIPLE * h /\ console.counter = h % ByteValues
      /\ dOut = offer(Run.laid, TRIPLE * h, h % ByteValues)
      /\ dpc \in LoopLabels(Run)
      /\ owed => dpc \in {"byteStore", "storeThree"}
      /\ console.seen = (IF h = 0 THEN Run.unechoed ELSE (h - 1) % ByteValues)
      /\ dEcho = (IF owed THEN h % ByteValues ELSE console.seen)
      /\ Current \in Nat /\ dY = Current % ByteValues
      /\ dpc # Run.entry => Current < Triples(Run)

\* The pointers, the index taken off.
PointersRight ==
  /\ dDest = DESTINATION + Current - dY
  /\ Run.entry = "tripleLoop" => dTwo = SECOND + Current - dY /\ dThree = THIRD + Current - dY

\* What is in memory and on its way there.
StoredUpTo(n) ==
  /\ \A k \in 0 .. n - 1 : dMem[DESTINATION + k] = LaidAt(Run.laid, TRIPLE * k + 1)
  /\ Run.entry = "tripleLoop" =>
       \A k \in 0 .. n - 1 :
         /\ dMem[SECOND + k] = LaidAt(Run.laid, TRIPLE * k + 2)
         /\ dMem[THIRD + k] = LaidAt(Run.laid, TRIPLE * k + 3)
Underway ==
  LET byte(k) == LaidAt(Run.laid, TRIPLE * Current + k)
  IN  /\ dpc \in {"readTwo", "readThree", "tripleEcho", "storeThree", "storeTwo"} =>
           dMem[DESTINATION + Current] = byte(1)
      /\ dpc \in {"readThree", "tripleEcho", "storeThree", "storeTwo"} => dX = byte(2)
      /\ dpc \in {"tripleEcho", "storeThree", "storeTwo"} => dA = byte(3)
      /\ dpc = "storeTwo" => dMem[THIRD + Current] = byte(3)
      /\ dpc \in {"byteEcho", "byteStore"} => dA = byte(1)
RightPhase ==
  /\ HandshakeRight /\ PointersRight /\ StoredUpTo(Current) /\ Underway
  /\ DOMAIN dMem = 0 .. MemoryEnd - 1

\* A run that starts with the next counter: its payload is taken for headers.
LateCounter ==
  LET h == console.handshakes
      lead(n) == LaidAt(Run.laid, TRIPLE * n + 1)
  IN  /\ h \in Nat /\ console.at = TRIPLE * h /\ console.counter = (h + 1) % ByteValues
      /\ dOut = offer(Run.laid, TRIPLE * h, (h + 1) % ByteValues)
      /\ dpc \in {"tripleLoop", "header", "headerKind", "headerEcho", "ready", "blockStart"}
      /\ dpc = "tripleLoop" => h = 0 /\ dY = 0
      /\ owed => dpc \in {"ready", "blockStart"}
      /\ ~owed => dEcho = console.seen
      /\ dpc # "blockStart" => \A n \in 0 .. h - 1 : lead(n) = 0
      /\ dpc = "headerEcho" => dKind = lead(h)
      /\ dpc = "ready" /\ owed => lead(h) = 0
      /\ dpc = "blockStart" => IF owed THEN h <= ByteValues - 3 ELSE dOut[0] # 0

\* A run whose latch hides the first acknowledgement: it is never answered.
HiddenEcho ==
  /\ console = [at |-> 0, counter |-> 0, handshakes |-> 0, seen |-> 0]
  /\ dOut = offer(Run.laid, 0, 0) /\ ~owed /\ dEcho = 0
  /\ dpc \in LoopLabels(Run) /\ dY \in {0, 1} /\ (dY = 1 => dpc = "tripleLoop")

\* A run under way is one of these, and there is nothing owed between runs.
BenchPhase ==
  /\ DOMAIN dMem = 0 .. MemoryEnd - 1
  /\ dpc = "off" => ~owed
  /\ dpc # "off" => /\ plan # <<>>
                    /\ RightRun(Run) => RightPhase
                    /\ ~RightRun(Run) /\ Run.counter # FIRST_COUNTER => LateCounter
                    /\ ~RightRun(Run) /\ Run.counter = FIRST_COUNTER => HiddenEcho

\* A run that is over was given up, or came back with what it laid out.
Over(t) ==
  IF ~RightRun(t.run) THEN t.raised
  ELSE /\ ~t.raised /\ t.handshakes = Triples(t.run) /\ t.streams = [k \in 1 .. 3 |-> t.streams[k]]
       /\ \A k \in (IF t.run.entry = "byteLoop" THEN {1} ELSE 1 .. 3) : t.streams[k] = Taken(t, k)

\* What was asked for is what was run and what is left.
PlanKept ==
  /\ plan \in Seq(BenchRuns)
  /\ transfers \in Seq({transfers[n] : n \in DOMAIN transfers})
  /\ \E asked \in Plans \cup {<<>>} :
       /\ Len(asked) = Len(transfers) + Len(plan)
       /\ \A k \in 1 .. Len(transfers) : transfers[k].run = asked[k]
       /\ \A k \in 1 .. Len(plan) : plan[k] = asked[Len(transfers) + k]

BenchInv == PlanKept /\ BenchPhase /\ \A n \in 1 .. Len(transfers) : Over(transfers[n])

\* A place in memory is no more than the end of it.
LEMMA MemoryIs == MemoryEnd \in Nat /\ MemoryEnd = Driver!M
<1>1. ByteValues \in Nat /\ RamPages \in Nat
  BY BenchSizes
<1> QED
  BY <1>1 DEF MemoryEnd, Driver!M

\* The sizes of a run and of its regions.
RoomFor(r) ==
  /\ Triples(r) <= CEILING
  /\ r.entry \in {"byteLoop", "tripleLoop"}
  /\ Len(r.laid) \in Nat \ {0} /\ Triples(r) \in Nat \ {0} /\ r.carried \in 0 .. Triples(r)
  /\ Len(r.laid) <= 3 * Triples(r) /\ 3 * Triples(r) <= Len(r.laid) + 2
  /\ DESTINATION + Triples(r) < MemoryEnd
  /\ r.entry = "tripleLoop" =>
       /\ DESTINATION + Triples(r) <= SECOND /\ SECOND + Triples(r) <= THIRD
       /\ THIRD + Triples(r) < MemoryEnd

\* Every run has the room it needs.
LEMMA RunSizes ==
  ASSUME NEW r \in BenchRuns
  PROVE  r.unit \in BOOLEAN /\ RoomFor(r)
<1>0. MemoryEnd \in Nat /\ DESTINATION \in Nat /\ SECOND \in Nat /\ THIRD \in Nat /\ CEILING \in Nat
  BY MemoryIs, BenchSizes
<1>1. PICK p \in Payloads :
        \/ r = deliver_one_at_a_time(p) \/ r = deliver(p)
        \/ r = on_hardware("byteLoop", spread(p), FIRST_COUNTER, UNECHOED)
        \/ \E c \in {0, 1}, u \in {0, UNECHOED} : r = on_hardware("tripleLoop", p, c, u)
  BY DEF BenchRuns
<1> DEFINE triples == (Len(p) + 2) \div TRIPLE
<1>2. /\ p \in Seq(0 .. ByteValues - 1) /\ p # <<>> /\ Len(p) <= CEILING
      /\ DESTINATION + triples <= SECOND /\ SECOND + triples <= THIRD
      /\ DESTINATION + Len(p) < MemoryEnd /\ THIRD + triples < MemoryEnd
  BY PayloadsGiven DEF MemoryEnd
<1>3. Len(p) \in Nat \ {0}
  BY <1>2
<1>4. triples \in Nat \ {0} /\ triples <= Len(p) /\ Len(p) <= 3 * triples /\ 3 * triples <= Len(p) + 2
  BY <1>3 DEF TRIPLE
<1>5. Len(spread(p)) = 3 * Len(p) /\ (Len(spread(p)) + 2) \div TRIPLE = Len(p)
  <2>1. 3 * Len(p) \in Nat
    BY <1>3
  <2>2. Len(spread(p)) = 3 * Len(p)
    BY <2>1 DEF spread, TRIPLE
  <2>3. (3 * Len(p) + 2) \div 3 = Len(p)
    BY <1>3
  <2> QED
    BY <2>2, <2>3 DEF TRIPLE
<1> HIDE DEF triples
<1>t. /\ DESTINATION + triples <= SECOND /\ SECOND + triples <= THIRD
      /\ DESTINATION + Len(p) < MemoryEnd /\ THIRD + triples < MemoryEnd /\ Len(p) <= CEILING
  BY <1>2
<1>6. CASE r = deliver_one_at_a_time(p)
  <2>1. r.entry = "byteLoop" /\ r.laid = spread(p) /\ r.carried = triples /\ Triples(r) = Len(p)
    BY <1>5, <1>6 DEF deliver_one_at_a_time, BenchRun, triples, Triples
  <2>2. RoomFor(r)
    BY <1>0, <1>t, <1>3, <1>4, <1>5, <2>1 DEF RoomFor
  <2>3. r.unit \in BOOLEAN
    BY <1>6 DEF deliver_one_at_a_time, BenchRun
  <2> QED
    BY <2>2, <2>3, Zenon
<1>7. CASE r = deliver(p)
  <2>1. r.entry = "tripleLoop" /\ r.laid = p /\ r.carried = triples /\ Triples(r) = triples
    BY <1>7 DEF deliver, BenchRun, triples, Triples
  <2>2. RoomFor(r)
    BY <1>0, <1>t, <1>3, <1>4, <2>1 DEF RoomFor
  <2>3. r.unit \in BOOLEAN
    BY <1>7 DEF deliver, BenchRun
  <2> QED
    BY <2>2, <2>3, Zenon
<1>8. CASE r = on_hardware("byteLoop", spread(p), FIRST_COUNTER, UNECHOED)
  <2>1. r.entry = "byteLoop" /\ r.laid = spread(p) /\ r.carried = Len(p) /\ Triples(r) = Len(p)
    BY <1>5, <1>8 DEF on_hardware, BenchRun, Triples
  <2>2. RoomFor(r)
    BY <1>0, <1>t, <1>3, <1>4, <1>5, <2>1 DEF RoomFor
  <2>3. r.unit \in BOOLEAN
    BY <1>8 DEF on_hardware, BenchRun
  <2> QED
    BY <2>2, <2>3, Zenon
<1>9. CASE \E c \in {0, 1}, u \in {0, UNECHOED} : r = on_hardware("tripleLoop", p, c, u)
  <2>1. r.entry = "tripleLoop" /\ r.laid = p /\ r.carried = triples /\ Triples(r) = triples
    BY <1>9 DEF on_hardware, BenchRun, triples, Triples
  <2>2. RoomFor(r)
    BY <1>0, <1>t, <1>3, <1>4, <2>1 DEF RoomFor
  <2>3. r.unit \in BOOLEAN
    BY <1>9 DEF on_hardware, BenchRun
  <2> QED
    BY <2>2, <2>3, Zenon
<1> QED
  BY <1>1, <1>6, <1>7, <1>8, <1>9

\* A run that does not start where the driver expects is one of the unit, of
\* the patched loop; and if its counter is late, a lead that is not zero comes
\* before the counter has come round.
LEMMA WrongRuns ==
  ASSUME NEW r \in BenchRuns
  PROVE  /\ r.counter \in {0, 1} /\ r.unechoed \in 0 .. ByteValues - 1
         /\ ~RightRun(r) => r.unit /\ r.entry = "tripleLoop" /\ (r.counter = FIRST_COUNTER => r.unechoed = 0)
         /\ r.unit /\ RightRun(r) => r.unechoed # 0
         /\ ~RightRun(r) => \A h \in Nat : LaidAt(r.laid, TRIPLE * h + 1) # 0 =>
                              \E n \in Nat : n <= ByteValues - 3 /\ LaidAt(r.laid, TRIPLE * n + 1) # 0
<1>0. ByteValues \in Nat /\ ByteValues >= 4 /\ UNECHOED \in 1 .. ByteValues - 1
  BY BenchSizes
<1>1. PICK p \in Payloads :
        \/ r = deliver_one_at_a_time(p) \/ r = deliver(p)
        \/ r = on_hardware("byteLoop", spread(p), FIRST_COUNTER, UNECHOED)
        \/ \E c \in {0, 1}, u \in {0, UNECHOED} : r = on_hardware("tripleLoop", p, c, u)
  BY DEF BenchRuns
<1>2. CASE r = deliver_one_at_a_time(p) \/ r = deliver(p)
  <2>1. r.unit = FALSE /\ r.counter = 0 /\ r.unechoed = 0
    BY <1>2 DEF deliver, deliver_one_at_a_time, BenchRun, FIRST_COUNTER
  <2> QED
    BY <1>0, <2>1 DEF RightRun, FIRST_COUNTER
<1>3. CASE r = on_hardware("byteLoop", spread(p), FIRST_COUNTER, UNECHOED)
  <2>1. r.unit = TRUE /\ r.counter = 0 /\ r.unechoed = UNECHOED
    BY <1>3 DEF on_hardware, BenchRun, FIRST_COUNTER
  <2> QED
    BY <1>0, <2>1 DEF RightRun, FIRST_COUNTER
<1>4. CASE \E c \in {0, 1}, u \in {0, UNECHOED} : r = on_hardware("tripleLoop", p, c, u)
  <2>1. PICK c \in {0, 1}, u \in {0, UNECHOED} : r = on_hardware("tripleLoop", p, c, u)
    BY <1>4
  <2>2. r.unit = TRUE /\ r.counter = c /\ r.unechoed = u /\ r.laid = p /\ r.entry = "tripleLoop"
    BY <2>1 DEF on_hardware, BenchRun
  <2>3. ASSUME NEW h \in Nat, LaidAt(p, TRIPLE * h + 1) # 0
        PROVE  \E n \in Nat : n <= ByteValues - 3 /\ LaidAt(p, TRIPLE * n + 1) # 0
    <3> DEFINE triples == (Len(p) + 2) \div TRIPLE
               leads == {n \in 0 .. triples - 1 : p[TRIPLE * n + 1] # 0}
    <3>1. p \in Seq(0 .. ByteValues - 1) /\ (leads = {} \/ \E n \in leads : n <= ByteValues - 3)
      BY PayloadsGiven
    <3>2. Len(p) \in Nat /\ \A n \in 0 .. triples - 1 : 3 * n + 1 <= Len(p)
      BY <3>1 DEF TRIPLE
    <3>3. 3 * h + 1 <= Len(p) /\ p[3 * h + 1] # 0
      BY <2>3, <3>2 DEF LaidAt, TRIPLE
    <3>4. h \in 0 .. triples - 1
      BY <3>2, <3>3 DEF TRIPLE
    <3>5. h \in leads
      BY <3>3, <3>4 DEF TRIPLE
    <3>6. PICK n \in leads : n <= ByteValues - 3
      BY <3>1, <3>5
    <3> QED
      BY <3>2, <3>6 DEF LaidAt, TRIPLE
  <2> QED
    BY <1>0, <2>2, <2>3 DEF RightRun, FIRST_COUNTER
<1> QED
  BY <1>1, <1>2, <1>3, <1>4

\* What stands in the ports after an offer.
LEMMA OfferIs ==
  ASSUME NEW laid, NEW at, NEW counter
  PROVE  /\ offer(laid, at, counter)[0] = counter
         /\ \A k \in {1, 2, 3} : offer(laid, at, counter)[k] = LaidAt(laid, at + k)
  BY DEF offer, LaidAt, TRIPLE

\* A pointer with its index taken off, plus the index, is the place; and when
\* the index wraps the pointer moves on by what the index lost.
LEMMA Lanes ==
  ASSUME NEW c \in Nat, NEW origin \in Nat, origin + c + 1 < MemoryEnd, NEW pointer,
         pointer = origin + c - (c % ByteValues)
  PROVE  /\ c % ByteValues \in 0 .. ByteValues - 1
         /\ ((c % ByteValues) + 1) % ByteValues = (c + 1) % ByteValues
         /\ (pointer + (c % ByteValues)) % MemoryEnd = origin + c
         /\ (IF (c + 1) % ByteValues = 0 THEN (pointer + ByteValues) % MemoryEnd ELSE pointer)
              = origin + (c + 1) - ((c + 1) % ByteValues)
<1>1. ByteValues \in Nat /\ ByteValues >= 4 /\ MemoryEnd \in Nat /\ MemoryEnd # 0
  BY BenchSizes, MemoryIs
<1>m. ByteValues \in Nat \ {0} /\ 1 \in Nat
  BY <1>1
<1>2. c % ByteValues \in 0 .. ByteValues - 1
  BY <1>m, ModRange, Zenon
<1>3. ((c % ByteValues) + 1) % ByteValues = (c + 1) % ByteValues
  BY <1>m, ModAdd, Zenon
<1>4. (c + 1) % ByteValues = IF c % ByteValues = ByteValues - 1 THEN 0 ELSE (c % ByteValues) + 1
  BY <1>m, ModSucc, Zenon
<1> DEFINE y == c % ByteValues
           z == (c + 1) % ByteValues
<1>5. \A n \in 0 .. MemoryEnd - 1 : n % MemoryEnd = n
  BY <1>1, ModSmall
<1> HIDE DEF y, z
<1>6. y \in 0 .. ByteValues - 1 /\ z = (IF y = ByteValues - 1 THEN 0 ELSE y + 1) /\ pointer = origin + c - y
  BY <1>2, <1>4 DEF y, z
<1>7. (pointer + y) % MemoryEnd = origin + c
  <2>1. pointer + y = origin + c /\ origin + c \in 0 .. MemoryEnd - 1
    BY <1>1, <1>6
  <2> QED
    BY <1>5, <2>1
<1>8. (IF z = 0 THEN (pointer + ByteValues) % MemoryEnd ELSE pointer) = origin + (c + 1) - z
  <2>1. CASE z = 0
    <3>1. pointer + ByteValues = origin + (c + 1) /\ origin + (c + 1) \in 0 .. MemoryEnd - 1
      BY <1>1, <1>6, <2>1
    <3> QED
      BY <1>5, <2>1, <3>1
  <2>2. CASE z # 0
    BY <1>1, <1>6, <2>2
  <2> QED
    BY <2>1, <2>2
<1> QED
  BY <1>2, <1>3, <1>7, <1>8 DEF y, z

\* The step the driver takes at each of its labels.
LEMMA DriverAt ==
  ASSUME Driver!Spc
  PROVE  /\ dpc = "tripleLoop" => Driver!SpcTripleLoop
         /\ dpc = "storeOne" => Driver!SpcStoreOne
         /\ dpc = "readTwo" => Driver!SpcReadTwo
         /\ dpc = "readThree" => Driver!SpcReadThree
         /\ dpc = "tripleEcho" => Driver!SpcTripleEcho
         /\ dpc = "storeThree" => Driver!SpcStoreThree
         /\ dpc = "storeTwo" => Driver!SpcStoreTwo
         /\ dpc = "byteLoop" => Driver!SpcByteLoop
         /\ dpc = "byteRead" => Driver!SpcByteRead
         /\ dpc = "byteEcho" => Driver!SpcByteEcho
         /\ dpc = "byteStore" => Driver!SpcByteStore
         /\ dpc = "header" => Driver!SpcHeaderDest
         /\ dpc = "headerKind" => Driver!SpcHeaderKind
         /\ dpc = "headerEcho" => Driver!SpcHeaderEcho
         /\ dpc = "ready" => Driver!SpcReady
         /\ dpc = "blockStart" => Driver!SpcBlockStart
<1>1. /\ Driver!SpcReady => dpc = "ready"
      /\ Driver!SpcHeaderDest => dpc = "header"
      /\ Driver!SpcHeaderKind => dpc = "headerKind"
      /\ Driver!SpcHeaderEcho => dpc = "headerEcho"
      /\ Driver!SpcBlockStart => dpc = "blockStart"
      /\ Driver!SpcDispatch => dpc = "dispatch"
      /\ Driver!SpcByteLoop => dpc = "byteLoop"
      /\ Driver!SpcByteRead => dpc = "byteRead"
      /\ Driver!SpcByteEcho => dpc = "byteEcho"
      /\ Driver!SpcByteStore => dpc = "byteStore"
  BY DEF Driver!SpcReady, Driver!SpcHeaderDest, Driver!SpcHeaderKind, Driver!SpcHeaderEcho, Driver!SpcBlockStart,
         Driver!SpcDispatch, Driver!SpcByteLoop, Driver!SpcByteRead, Driver!SpcByteEcho, Driver!SpcByteStore, Driver!SpcGoto
<1>2. /\ Driver!SpcSetupTwo => dpc = "setupTwo"
      /\ Driver!SpcSetupThree => dpc = "setupThree"
      /\ Driver!SpcSetupEcho => dpc = "setupEcho"
      /\ Driver!SpcTripleLoop => dpc = "tripleLoop"
      /\ Driver!SpcStoreOne => dpc = "storeOne"
      /\ Driver!SpcReadTwo => dpc = "readTwo"
      /\ Driver!SpcReadThree => dpc = "readThree"
      /\ Driver!SpcTripleEcho => dpc = "tripleEcho"
      /\ Driver!SpcStoreThree => dpc = "storeThree"
      /\ Driver!SpcStoreTwo => dpc = "storeTwo"
  BY DEF Driver!SpcSetupTwo, Driver!SpcSetupThree, Driver!SpcSetupEcho, Driver!SpcTripleLoop, Driver!SpcStoreOne,
         Driver!SpcReadTwo, Driver!SpcReadThree, Driver!SpcTripleEcho, Driver!SpcStoreThree, Driver!SpcStoreTwo, Driver!SpcGoto
<1> QED
  BY <1>1, <1>2 DEF Driver!Spc

\* What an acknowledgement is owed for.
LEMMA OwedBy ==
  ASSUME Run \in BenchRuns, StepDriver
  PROVE  /\ ~owed /\ ~Stopped /\ Driver!Spc /\ owed' \in BOOLEAN
         /\ dOut' = dOut /\ console' = console /\ plan' = plan /\ transfers' = transfers
         /\ Run.unit => (owed' <=> dEcho' # console.seen)
         /\ ~Run.unit => (owed' <=> dpc \in Acknowledges)
<1>1. owed' = IF Run.unit THEN dEcho' # console.seen ELSE dpc \in Acknowledges
  BY DEF StepDriver
<1>2. CASE Run.unit
  <2>1. owed' = (dEcho' # console.seen)
    BY <1>1, <1>2
  <2>2. (dEcho' # console.seen) \in BOOLEAN
    OBVIOUS
  <2> QED
    BY <1>2, <2>1, <2>2 DEF StepDriver
<1>3. CASE ~Run.unit
  <2>1. owed' = (dpc \in Acknowledges)
    BY <1>1, <1>3
  <2>2. (dpc \in Acknowledges) \in BOOLEAN
    OBVIOUS
  <2> QED
    BY <1>3, <2>1, <2>2 DEF StepDriver
<1> QED
  BY <1>2, <1>3

\* The handshake and the pointers, when the driver neither acknowledges nor
\* moves its index.
LEMMA QuietStep ==
  ASSUME Run \in BenchRuns, HandshakeRight, PointersRight, ~owed, ~owed',
         dOut' = dOut, console' = console, plan' = plan, dEcho' = dEcho, dY' = dY,
         dDest' = dDest, dTwo' = dTwo, dThree' = dThree,
         dpc' \in LoopLabels(Run), dpc \in PastEcho <=> dpc' \in PastEcho,
         dpc' # Run.entry => Current < Triples(Run)
  PROVE  HandshakeRight' /\ PointersRight' /\ Current' = Current
<1>1. Current' = Current
  BY DEF Current
<1>2. Run' = Run
  BY DEF Run
<1>3. HandshakeRight'
  BY <1>1, <1>2 DEF HandshakeRight, LoopLabels, Triples
<1>4. PointersRight'
  BY <1>1, <1>2 DEF PointersRight
<1> QED
  BY <1>1, <1>3, <1>4

\* The same when it acknowledges the triple it has read: an answer is owed.
LEMMA EchoStep ==
  ASSUME Run \in BenchRuns, RightRun(Run), HandshakeRight, PointersRight, ~owed,
         Run.unit => (owed' <=> dEcho' # console.seen), ~Run.unit => owed', owed' \in BOOLEAN,
         dOut' = dOut, console' = console, plan' = plan, dEcho' = dY, dY' = dY,
         dDest' = dDest, dTwo' = dTwo, dThree' = dThree,
         dpc \in {"tripleEcho", "byteEcho"}, dpc' = (IF dpc = "byteEcho" THEN "byteStore" ELSE "storeThree")
  PROVE  HandshakeRight' /\ PointersRight' /\ Current' = Current /\ owed'
<1> DEFINE h == console.handshakes
<1>0. /\ ByteValues \in Nat /\ ByteValues >= 4 /\ Run.unit \in BOOLEAN /\ Triples(Run) \in Nat
      /\ Run.entry \in {"byteLoop", "tripleLoop"}
  BY BenchSizes, RunSizes DEF RoomFor
<1>1. Current = h /\ h \in Nat /\ h < Triples(Run) /\ dpc \in LoopLabels(Run)
  BY <1>0 DEF Current, PastEcho, HandshakeRight, LoopLabels
<1>2. dY = h % ByteValues /\ console.seen = (IF h = 0 THEN Run.unechoed ELSE (h - 1) % ByteValues)
  BY <1>1 DEF HandshakeRight
<1>3. Run.unit => dY # console.seen
  <2>1. CASE h = 0
    <3>1. Run.unit => Run.unechoed # 0
      BY WrongRuns, Zenon
    <3>2. dY = 0 /\ console.seen = Run.unechoed
      BY <1>0, <1>2, <2>1
    <3> QED
      BY <3>1, <3>2
  <2>2. CASE h # 0
    <3>1. h - 1 \in Nat /\ ByteValues \in Nat \ {0} /\ h = (h - 1) + 1
      BY <1>0, <1>1, <2>2
    <3>2. ((h - 1) + 1) % ByteValues = IF (h - 1) % ByteValues = ByteValues - 1 THEN 0 ELSE ((h - 1) % ByteValues) + 1
      BY <3>1, ModSucc
    <3>3. (h - 1) % ByteValues \in 0 .. ByteValues - 1
      BY <3>1, ModRange
    <3> DEFINE z == (h - 1) % ByteValues
    <3>4. dY = IF z = ByteValues - 1 THEN 0 ELSE z + 1
      BY <1>2, <3>1, <3>2
    <3>5. console.seen = z /\ z \in 0 .. ByteValues - 1
      BY <1>2, <2>2, <3>3
    <3> HIDE DEF z
    <3> QED
      BY <1>0, <3>4, <3>5
  <2> QED
    BY <2>1, <2>2
<1>4. owed'
  <2>1. CASE Run.unit
    BY <1>3, <2>1
  <2>2. CASE ~Run.unit
    BY <2>2
  <2> QED
    BY <2>1, <2>2
<1>5. Current' = h /\ Run' = Run
  BY <1>4 DEF Current, Run
<1>6. HandshakeRight'
  <2>1. dpc' \in LoopLabels(Run)' /\ dpc' \in {"byteStore", "storeThree"}
    BY <1>1, <1>5 DEF LoopLabels
  <2>2. dEcho' = h % ByteValues /\ dY' = h % ByteValues
    BY <1>2
  <2> QED
    BY <1>1, <1>2, <1>4, <1>5, <2>1, <2>2 DEF HandshakeRight, Triples
<1>7. PointersRight'
  BY <1>1, <1>5 DEF PointersRight
<1> QED
  BY <1>1, <1>4, <1>5, <1>6, <1>7

\* And when it moves its index on, past what it has stored.
LEMMA AdvanceStep ==
  ASSUME Run \in BenchRuns, HandshakeRight, PointersRight, ~owed, ~owed',
         dOut' = dOut, console' = console, plan' = plan, dEcho' = dEcho,
         dY' = Driver!NextIndex, dDest' = Driver!Carry(dDest),
         Run.entry = "tripleLoop" => dTwo' = Driver!Carry(dTwo) /\ dThree' = Driver!Carry(dThree),
         dpc \in {"storeTwo", "byteStore"}, dpc' = Run.entry
  PROVE  HandshakeRight' /\ PointersRight' /\ Current' = Current + 1
<1> DEFINE h == console.handshakes
           c == Current
           y == c % ByteValues
           z == (c + 1) % ByteValues
<1>0. /\ ByteValues \in Nat /\ MemoryEnd \in Nat /\ Triples(Run) \in Nat
      /\ DESTINATION \in Nat /\ SECOND \in Nat /\ THIRD \in Nat
      /\ Run.entry \in {"byteLoop", "tripleLoop"} /\ DESTINATION + Triples(Run) < MemoryEnd
      /\ Run.entry = "tripleLoop" => SECOND + Triples(Run) < MemoryEnd /\ THIRD + Triples(Run) < MemoryEnd
  <2>1. RoomFor(Run)
    BY RunSizes
  <2> QED
    BY <2>1, BenchSizes, MemoryIs DEF RoomFor
<1>1. c = h - 1 /\ c \in Nat /\ h \in Nat /\ c + 1 = h /\ c < Triples(Run) /\ dpc \in LoopLabels(Run) /\ dY = y
  BY <1>0 DEF Current, PastEcho, HandshakeRight
<1>2. Run' = Run /\ Current' = c + 1
  BY <1>0, <1>1 DEF Current, PastEcho, Run
<1>3. ASSUME NEW origin \in Nat, origin + Triples(Run) < MemoryEnd, NEW pointer, pointer = origin + c - dY
      PROVE  Driver!Carry(pointer) = origin + (c + 1) - z /\ Driver!NextIndex = z
  <2>1. origin + c + 1 < MemoryEnd /\ pointer = origin + c - (c % ByteValues)
    BY <1>0, <1>1, <1>3
  <2>2. /\ ((c % ByteValues) + 1) % ByteValues = z
        /\ (IF z = 0 THEN (pointer + ByteValues) % MemoryEnd ELSE pointer) = origin + (c + 1) - z
    BY <1>1, <2>1, Lanes
  <2> QED
    BY <1>1, <2>2, MemoryIs DEF Driver!Carry, Driver!NextIndex
<1>4. dDest = DESTINATION + c - dY /\ (Run.entry = "tripleLoop" => dTwo = SECOND + c - dY /\ dThree = THIRD + c - dY)
  BY DEF PointersRight
<1>5. dDest' = DESTINATION + (c + 1) - z /\ dY' = z
  BY <1>0, <1>3, <1>4
<1>6. Run.entry = "tripleLoop" => dTwo' = SECOND + (c + 1) - z /\ dThree' = THIRD + (c + 1) - z
  BY <1>0, <1>3, <1>4
<1> HIDE DEF c
<1>7. PointersRight'
  BY <1>2, <1>5, <1>6 DEF PointersRight
<1>8. HandshakeRight'
  <2>1. dpc' \in LoopLabels(Run)' /\ c + 1 \in Nat
    BY <1>0, <1>1, <1>2 DEF LoopLabels
  <2>2. HandshakeRight
    OBVIOUS
  <2> QED
    BY <1>1, <1>2, <1>5, <2>1, <2>2 DEF HandshakeRight, Triples
<1> QED
  BY <1>2, <1>7, <1>8 DEF c

\* The memory and the registers of a right run, and what is in the ports.
LEMMA RightPorts ==
  ASSUME Run \in BenchRuns, HandshakeRight, dpc \notin PastEcho
  PROVE  /\ Current = console.handshakes /\ dOut[0] = dY
         /\ \A k \in {1, 2, 3} : dOut[k] = LaidAt(Run.laid, TRIPLE * Current + k)
<1>1. Current = console.handshakes
  BY DEF Current
<1>2. dOut = offer(Run.laid, TRIPLE * Current, Current % ByteValues) /\ dY = Current % ByteValues
  BY <1>1 DEF HandshakeRight
<1> QED
  BY <1>1, <1>2, OfferIs

\* One place is written and the rest of the memory stays.
LEMMA WrittenAt ==
  ASSUME NEW at, at \in DOMAIN dMem, NEW value, dMem' = [dMem EXCEPT ![at] = value]
  PROVE  /\ dMem'[at] = value /\ DOMAIN dMem' = DOMAIN dMem
         /\ \A n \in DOMAIN dMem : n # at => dMem'[n] = dMem[n]
  OBVIOUS

\* Where a right run stores: a place of its own in each region.
LEMMA Regions3 ==
  ASSUME Run \in BenchRuns, HandshakeRight, PointersRight, DOMAIN dMem = 0 .. MemoryEnd - 1, dpc # Run.entry
  PROVE  /\ Current \in Nat /\ {DESTINATION, SECOND, THIRD} \subseteq Nat
         /\ (dDest + dY) % Driver!M = DESTINATION + Current /\ DESTINATION + Current \in DOMAIN dMem
         /\ \A k \in 0 .. Current - 1 : DESTINATION + k # DESTINATION + Current /\ DESTINATION + k \in DOMAIN dMem
         /\ Run.entry = "tripleLoop" =>
              /\ (dTwo + dY) % Driver!M = SECOND + Current /\ SECOND + Current \in DOMAIN dMem
              /\ (dThree + dY) % Driver!M = THIRD + Current /\ THIRD + Current \in DOMAIN dMem
              /\ \A j, k \in 0 .. Current :
                   /\ DESTINATION + j # SECOND + k /\ DESTINATION + j # THIRD + k /\ SECOND + j # THIRD + k
                   /\ DESTINATION + j \in DOMAIN dMem /\ SECOND + j \in DOMAIN dMem /\ THIRD + j \in DOMAIN dMem
<1> DEFINE c == Current
           N == Triples(Run)
<1>0. /\ DESTINATION \in Nat /\ SECOND \in Nat /\ THIRD \in Nat /\ MemoryEnd \in Nat /\ N \in Nat
      /\ DESTINATION + N < MemoryEnd
      /\ Run.entry = "tripleLoop" =>
           /\ DESTINATION + N <= SECOND /\ SECOND + N <= THIRD /\ THIRD + N < MemoryEnd
  <2>1. RoomFor(Run)
    BY RunSizes
  <2> QED
    BY <2>1, BenchSizes, MemoryIs DEF RoomFor
<1>1. c \in Nat /\ c < N /\ dY = c % ByteValues
  BY DEF HandshakeRight
<1>2. dDest = DESTINATION + c - dY /\ (Run.entry = "tripleLoop" => dTwo = SECOND + c - dY /\ dThree = THIRD + c - dY)
  BY DEF PointersRight
<1>3. ASSUME NEW origin \in Nat, origin + N < MemoryEnd, NEW pointer, pointer = origin + c - dY
      PROVE  (pointer + dY) % Driver!M = origin + c
  <2>1. origin + c + 1 < MemoryEnd /\ pointer = origin + c - (c % ByteValues)
    BY <1>0, <1>1, <1>3
  <2>2. (pointer + (c % ByteValues)) % MemoryEnd = origin + c
    BY <1>1, <2>1, Lanes
  <2> QED
    BY <1>1, <2>2, MemoryIs
<1>4. (dDest + dY) % Driver!M = DESTINATION + c
  BY <1>0, <1>2, <1>3
<1>5. Run.entry = "tripleLoop" => (dTwo + dY) % Driver!M = SECOND + c /\ (dThree + dY) % Driver!M = THIRD + c
  BY <1>0, <1>2, <1>3
<1> HIDE DEF c, N
<1>6. DESTINATION + c \in DOMAIN dMem /\ \A k \in 0 .. c - 1 : DESTINATION + k # DESTINATION + c /\ DESTINATION + k \in DOMAIN dMem
  BY <1>0, <1>1
<1>7. ASSUME Run.entry = "tripleLoop"
      PROVE  /\ SECOND + c \in DOMAIN dMem /\ THIRD + c \in DOMAIN dMem
             /\ \A j, k \in 0 .. c :
                  /\ DESTINATION + j # SECOND + k /\ DESTINATION + j # THIRD + k /\ SECOND + j # THIRD + k
                  /\ DESTINATION + j \in DOMAIN dMem /\ SECOND + j \in DOMAIN dMem /\ THIRD + j \in DOMAIN dMem
  BY <1>0, <1>1, <1>7
<1> QED
  BY <1>0, <1>1, <1>4, <1>5, <1>6, <1>7 DEF c

\* A right run takes a step and stays right.
LEMMA RightStep ==
  ASSUME Run \in BenchRuns, RightRun(Run), RightPhase, StepDriver
  PROVE  RightPhase'
<1> DEFINE c == Current
           byte(k) == LaidAt(Run.laid, TRIPLE * c + k)
           Loop == Run.entry = "tripleLoop"
<1>1. /\ ~owed /\ ~Stopped /\ Driver!Spc /\ owed' \in BOOLEAN
      /\ dOut' = dOut /\ console' = console /\ plan' = plan
      /\ Run.unit => (owed' <=> dEcho' # console.seen)
      /\ ~Run.unit => (owed' <=> dpc \in Acknowledges)
  BY OwedBy
<1>2. HandshakeRight /\ PointersRight /\ StoredUpTo(Current) /\ Underway /\ DOMAIN dMem = 0 .. MemoryEnd - 1
  BY DEF RightPhase
<1>3. Run' = Run /\ Run.entry \in {"tripleLoop", "byteLoop"} /\ Triples(Run) \in Nat /\ Run.unit \in BOOLEAN
  BY <1>1, RunSizes DEF Run, RoomFor
<1>4. dEcho = console.seen /\ dpc \in LoopLabels(Run) /\ (dpc # Run.entry => Current < Triples(Run))
  BY <1>1, <1>2 DEF HandshakeRight
<1>5. dEcho' = dEcho /\ dpc \notin Acknowledges => ~owed'
  <2>1. CASE Run.unit
    BY <1>1, <1>4, <2>1
  <2>2. CASE ~Run.unit
    BY <1>1, <2>2
  <2> QED
    BY <2>1, <2>2
<1>6. dpc = Run.entry => Current < Triples(Run) /\ dOut[0] = dY
  <2> SUFFICES ASSUME dpc = Run.entry PROVE Current < Triples(Run) /\ dOut[0] = dY
    OBVIOUS
  <2>1. dpc \notin PastEcho
    BY <1>3 DEF PastEcho
  <2>2. Current = console.handshakes /\ dOut[0] = dY
    BY <1>2, <2>1, RightPorts
  <2>3. ~(console.at >= Len(Run.laid)) /\ console.at = 3 * console.handshakes /\ console.handshakes \in Nat
    BY <1>1, <1>2 DEF Stopped, Spent, spent, HandshakeRight, TRIPLE
  <2>4. Len(Run.laid) <= 3 * Triples(Run) /\ Len(Run.laid) \in Nat
    BY RunSizes DEF RoomFor
  <2> QED
    BY <1>3, <2>2, <2>3, <2>4
<1>0. DESTINATION \in Nat /\ SECOND \in Nat /\ THIRD \in Nat
  BY BenchSizes
<1>m. dpc # Run.entry =>
        /\ Current \in Nat
        /\ (dDest + dY) % Driver!M = DESTINATION + Current /\ DESTINATION + Current \in DOMAIN dMem
        /\ \A k \in 0 .. Current - 1 : DESTINATION + k # DESTINATION + Current /\ DESTINATION + k \in DOMAIN dMem
        /\ Loop =>
             /\ (dTwo + dY) % Driver!M = SECOND + Current /\ SECOND + Current \in DOMAIN dMem
             /\ (dThree + dY) % Driver!M = THIRD + Current /\ THIRD + Current \in DOMAIN dMem
             /\ \A j, k \in 0 .. Current :
                  /\ DESTINATION + j # SECOND + k /\ DESTINATION + j # THIRD + k /\ SECOND + j # THIRD + k
                  /\ DESTINATION + j \in DOMAIN dMem /\ SECOND + j \in DOMAIN dMem /\ THIRD + j \in DOMAIN dMem
  BY <1>2, Regions3
<1>p. dpc \notin PastEcho => \A k \in {1, 2, 3} : dOut[k] = byte(k)
  BY <1>2, RightPorts
<1>7. CASE dpc = "tripleLoop"
  <2>1. Driver!SpcTripleLoop
    BY <1>1, <1>7, DriverAt
  <2>2. dpc = Run.entry /\ Loop
    BY <1>3, <1>4, <1>7 DEF LoopLabels
  <2>3. /\ dpc' = "storeOne"
        /\ UNCHANGED <<dEcho, dY, dDest, dTwo, dThree, dX, dA, dMem>>
    BY <1>6, <2>1, <2>2 DEF Driver!SpcTripleLoop
  <2>4. HandshakeRight' /\ PointersRight' /\ Current' = Current
    <3>1. dpc' \in LoopLabels(Run) /\ (dpc \in PastEcho <=> dpc' \in PastEcho) /\ ~owed'
      BY <1>5, <1>7, <2>2, <2>3 DEF LoopLabels, PastEcho, Acknowledges
    <3> QED
      BY <1>1, <1>2, <1>6, <2>2, <2>3, <3>1, QuietStep
  <2>5. StoredUpTo(Current)' /\ Underway'
    BY <1>2, <1>3, <2>3, <2>4 DEF StoredUpTo, Underway
  <2> QED
    BY <1>2, <2>3, <2>4, <2>5 DEF RightPhase
<1>8. CASE dpc = "byteLoop"
  <2>1. Driver!SpcByteLoop
    BY <1>1, <1>8, DriverAt
  <2>2. dpc = Run.entry /\ ~Loop
    BY <1>3, <1>4, <1>8 DEF LoopLabels
  <2>3. /\ dpc' = "byteRead"
        /\ UNCHANGED <<dEcho, dY, dDest, dTwo, dThree, dX, dA, dMem>>
    BY <1>6, <2>1, <2>2 DEF Driver!SpcByteLoop
  <2>4. HandshakeRight' /\ PointersRight' /\ Current' = Current
    <3>1. dpc' \in LoopLabels(Run) /\ (dpc \in PastEcho <=> dpc' \in PastEcho) /\ ~owed'
      BY <1>5, <1>8, <2>2, <2>3 DEF LoopLabels, PastEcho, Acknowledges
    <3> QED
      BY <1>1, <1>2, <1>6, <2>2, <2>3, <3>1, QuietStep
  <2>5. StoredUpTo(Current)' /\ Underway'
    BY <1>2, <1>3, <2>3, <2>4 DEF StoredUpTo, Underway
  <2> QED
    BY <1>2, <2>3, <2>4, <2>5 DEF RightPhase
<1>9. CASE dpc = "storeOne"
  <2>1. Driver!SpcStoreOne
    BY <1>1, <1>9, DriverAt
  <2>2. dpc # Run.entry /\ Loop /\ dpc \notin PastEcho
    BY <1>3, <1>4, <1>9 DEF LoopLabels, PastEcho
  <2>3. /\ dpc' = "readTwo" /\ dMem' = [dMem EXCEPT ![DESTINATION + Current] = byte(1)]
        /\ UNCHANGED <<dEcho, dY, dDest, dTwo, dThree, dX, dA>>
    BY <1>m, <1>p, <2>1, <2>2 DEF Driver!SpcStoreOne, Driver!SpcGoto
  <2>4. HandshakeRight' /\ PointersRight' /\ Current' = Current
    <3>1. dpc' \in LoopLabels(Run) /\ (dpc \in PastEcho <=> dpc' \in PastEcho) /\ ~owed'
      BY <1>5, <1>9, <2>2, <2>3 DEF LoopLabels, PastEcho, Acknowledges
    <3> QED
      BY <1>1, <1>2, <1>4, <2>2, <2>3, <3>1, QuietStep
  <2>5. /\ dMem'[DESTINATION + Current] = byte(1) /\ DOMAIN dMem' = DOMAIN dMem
        /\ \A n \in DOMAIN dMem : n # DESTINATION + Current => dMem'[n] = dMem[n]
    BY <1>m, <2>2, <2>3, WrittenAt
  <2>6. StoredUpTo(Current)'
    <3>1. ASSUME NEW k \in 0 .. Current - 1
          PROVE  /\ dMem'[DESTINATION + k] = LaidAt(Run.laid, TRIPLE * k + 1)
                 /\ dMem'[SECOND + k] = LaidAt(Run.laid, TRIPLE * k + 2)
                 /\ dMem'[THIRD + k] = LaidAt(Run.laid, TRIPLE * k + 3)
      <4>1. /\ dMem[DESTINATION + k] = LaidAt(Run.laid, TRIPLE * k + 1)
            /\ dMem[SECOND + k] = LaidAt(Run.laid, TRIPLE * k + 2)
            /\ dMem[THIRD + k] = LaidAt(Run.laid, TRIPLE * k + 3)
        BY <1>2, <2>2 DEF StoredUpTo
      <4>2. Current \in Nat /\ k \in 0 .. Current /\ Current \in 0 .. Current
        BY <1>m, <2>2
      <4>3. /\ DESTINATION + k \in DOMAIN dMem /\ DESTINATION + k # DESTINATION + Current
            /\ SECOND + k \in DOMAIN dMem /\ DESTINATION + Current # SECOND + k
            /\ THIRD + k \in DOMAIN dMem /\ DESTINATION + Current # THIRD + k
        BY <1>m, <2>2, <4>2
      <4> QED
        BY <2>5, <4>1, <4>3
    <3> QED
      BY <1>3, <2>4, <3>1 DEF StoredUpTo
  <2>7. Underway'
    BY <1>3, <2>3, <2>4, <2>5 DEF Underway
  <2> QED
    BY <1>2, <2>3, <2>4, <2>5, <2>6, <2>7 DEF RightPhase
<1>10. CASE dpc \in {"readTwo", "readThree"}
  <2>1. /\ dpc = "readTwo" => Driver!SpcReadTwo
        /\ dpc = "readThree" => Driver!SpcReadThree
    BY <1>1, DriverAt
  <2>2. dpc # Run.entry /\ Loop /\ dpc \notin PastEcho
    BY <1>3, <1>4, <1>10 DEF LoopLabels, PastEcho
  <2>3. /\ dpc = "readTwo" => dpc' = "readThree" /\ dX' = dOut[2] /\ dA' = dA
        /\ dpc = "readThree" => dpc' = "tripleEcho" /\ dA' = dOut[3] /\ dX' = dX
        /\ UNCHANGED <<dEcho, dY, dDest, dTwo, dThree, dMem>>
    BY <1>10, <2>1 DEF Driver!SpcReadTwo, Driver!SpcReadThree, Driver!SpcGoto
  <2>4. HandshakeRight' /\ PointersRight' /\ Current' = Current
    <3>1. dpc' \in LoopLabels(Run) /\ (dpc \in PastEcho <=> dpc' \in PastEcho) /\ ~owed'
      BY <1>5, <1>10, <2>2, <2>3 DEF LoopLabels, PastEcho, Acknowledges
    <3> QED
      BY <1>1, <1>2, <1>4, <2>2, <2>3, <3>1, QuietStep
  <2>5. StoredUpTo(Current)'
    BY <1>2, <1>3, <2>3, <2>4 DEF StoredUpTo
  <2>6. Underway'
    BY <1>2, <1>3, <1>10, <1>p, <2>2, <2>3, <2>4 DEF Underway
  <2> QED
    BY <1>2, <2>3, <2>4, <2>5, <2>6 DEF RightPhase
<1>11. CASE dpc = "byteRead"
  <2>1. Driver!SpcByteRead
    BY <1>1, <1>11, DriverAt
  <2>2. dpc # Run.entry /\ ~Loop /\ dpc \notin PastEcho
    BY <1>3, <1>4, <1>11 DEF LoopLabels, PastEcho
  <2>3. /\ dpc' = "byteEcho" /\ dA' = dOut[1]
        /\ UNCHANGED <<dEcho, dY, dDest, dTwo, dThree, dX, dMem>>
    BY <2>1 DEF Driver!SpcByteRead, Driver!SpcGoto
  <2>4. HandshakeRight' /\ PointersRight' /\ Current' = Current
    <3>1. dpc' \in LoopLabels(Run) /\ (dpc \in PastEcho <=> dpc' \in PastEcho) /\ ~owed'
      BY <1>3, <1>5, <1>11, <2>2, <2>3 DEF LoopLabels, PastEcho, Acknowledges
    <3> QED
      BY <1>1, <1>2, <1>4, <2>2, <2>3, <3>1, QuietStep
  <2>5. StoredUpTo(Current)'
    BY <1>2, <1>3, <2>3, <2>4 DEF StoredUpTo
  <2>6. Underway'
    BY <1>3, <1>p, <2>2, <2>3, <2>4 DEF Underway
  <2> QED
    BY <1>2, <2>3, <2>4, <2>5, <2>6 DEF RightPhase
<1>12. CASE dpc \in {"tripleEcho", "byteEcho"}
  <2>1. /\ dpc = "tripleEcho" => Driver!SpcTripleEcho
        /\ dpc = "byteEcho" => Driver!SpcByteEcho
    BY <1>1, DriverAt
  <2>2. dpc # Run.entry /\ (dpc = "tripleEcho" <=> Loop) /\ dpc \in Acknowledges
    BY <1>3, <1>4, <1>12 DEF LoopLabels, Acknowledges
  <2>3. /\ dpc' = (IF dpc = "byteEcho" THEN "byteStore" ELSE "storeThree") /\ dEcho' = dY
        /\ UNCHANGED <<dY, dDest, dTwo, dThree, dX, dA, dMem>>
    BY <1>12, <2>1 DEF Driver!SpcTripleEcho, Driver!SpcByteEcho, Driver!SpcGoto
  <2>4. HandshakeRight' /\ PointersRight' /\ Current' = Current
    BY <1>1, <1>2, <1>12, <2>2, <2>3, EchoStep
  <2>5. StoredUpTo(Current)'
    BY <1>2, <1>3, <2>3, <2>4 DEF StoredUpTo
  <2>6. Underway'
    BY <1>2, <1>3, <1>12, <2>3, <2>4 DEF Underway
  <2> QED
    BY <1>2, <2>3, <2>4, <2>5, <2>6 DEF RightPhase
<1>13. CASE dpc = "storeThree"
  <2>1. Driver!SpcStoreThree
    BY <1>1, <1>13, DriverAt
  <2>2. dpc # Run.entry /\ Loop
    BY <1>3, <1>4, <1>13 DEF LoopLabels
  <2>3. /\ dpc' = "storeTwo" /\ dMem' = [dMem EXCEPT ![THIRD + Current] = dA]
        /\ UNCHANGED <<dEcho, dY, dDest, dTwo, dThree, dX, dA>>
    BY <1>m, <2>1, <2>2 DEF Driver!SpcStoreThree, Driver!SpcGoto
  <2>4. HandshakeRight' /\ PointersRight' /\ Current' = Current
    <3>1. dpc' \in LoopLabels(Run) /\ (dpc \in PastEcho <=> dpc' \in PastEcho) /\ ~owed'
      BY <1>5, <1>13, <2>2, <2>3 DEF LoopLabels, PastEcho, Acknowledges
    <3> QED
      BY <1>1, <1>2, <1>4, <2>2, <2>3, <3>1, QuietStep
  <2>5. /\ dMem'[THIRD + Current] = dA /\ DOMAIN dMem' = DOMAIN dMem
        /\ \A n \in DOMAIN dMem : n # THIRD + Current => dMem'[n] = dMem[n]
    BY <1>m, <2>2, <2>3, WrittenAt
  <2>6. StoredUpTo(Current)'
    <3>1. ASSUME NEW k \in 0 .. Current - 1
          PROVE  /\ dMem'[DESTINATION + k] = LaidAt(Run.laid, TRIPLE * k + 1)
                 /\ dMem'[SECOND + k] = LaidAt(Run.laid, TRIPLE * k + 2)
                 /\ dMem'[THIRD + k] = LaidAt(Run.laid, TRIPLE * k + 3)
      <4>1. /\ dMem[DESTINATION + k] = LaidAt(Run.laid, TRIPLE * k + 1)
            /\ dMem[SECOND + k] = LaidAt(Run.laid, TRIPLE * k + 2)
            /\ dMem[THIRD + k] = LaidAt(Run.laid, TRIPLE * k + 3)
        BY <1>2, <2>2 DEF StoredUpTo
      <4>2. Current \in Nat /\ k \in 0 .. Current /\ Current \in 0 .. Current
        BY <1>m, <2>2
      <4>3. /\ DESTINATION + k \in DOMAIN dMem /\ DESTINATION + k # THIRD + Current
            /\ SECOND + k \in DOMAIN dMem /\ SECOND + k # THIRD + Current
            /\ THIRD + k \in DOMAIN dMem
        BY <1>m, <2>2, <4>2
      <4>4. THIRD + k # THIRD + Current
        BY <1>0, <4>2
      <4> QED
        BY <2>5, <4>1, <4>3, <4>4
    <3> QED
      BY <1>3, <2>4, <3>1 DEF StoredUpTo
  <2>7. Underway'
    BY <1>2, <1>3, <1>13, <1>m, <2>2, <2>3, <2>4, <2>5 DEF Underway
  <2> QED
    BY <1>2, <2>3, <2>4, <2>5, <2>6, <2>7 DEF RightPhase
<1>14. CASE dpc = "storeTwo"
  <2>1. Driver!SpcStoreTwo
    BY <1>1, <1>14, DriverAt
  <2>2. dpc # Run.entry /\ Loop
    BY <1>3, <1>4, <1>14 DEF LoopLabels
  <2>3. /\ dpc' = "tripleLoop" /\ dMem' = [dMem EXCEPT ![SECOND + Current] = dX]
        /\ dY' = Driver!NextIndex /\ dEcho' = dEcho
        /\ dDest' = Driver!Carry(dDest) /\ dTwo' = Driver!Carry(dTwo) /\ dThree' = Driver!Carry(dThree)
    BY <1>m, <2>1, <2>2 DEF Driver!SpcStoreTwo, Driver!SpcGoto
  <2>4. HandshakeRight' /\ PointersRight' /\ Current' = Current + 1
    <3>1. ~owed' /\ dpc' = Run.entry
      BY <1>5, <1>14, <2>2, <2>3 DEF Acknowledges
    <3> QED
      BY <1>1, <1>2, <1>14, <2>2, <2>3, <3>1, AdvanceStep
  <2>5. /\ dMem'[SECOND + Current] = dX /\ DOMAIN dMem' = DOMAIN dMem
        /\ \A n \in DOMAIN dMem : n # SECOND + Current => dMem'[n] = dMem[n]
    BY <1>m, <2>2, <2>3, WrittenAt
  <2>6. dMem[DESTINATION + Current] = byte(1) /\ dX = byte(2) /\ dMem[THIRD + Current] = byte(3)
    BY <1>2, <1>14 DEF Underway
  <2>7. StoredUpTo(Current)'
    <3>1. ASSUME NEW k \in 0 .. Current
          PROVE  /\ dMem'[DESTINATION + k] = LaidAt(Run.laid, TRIPLE * k + 1)
                 /\ dMem'[SECOND + k] = LaidAt(Run.laid, TRIPLE * k + 2)
                 /\ dMem'[THIRD + k] = LaidAt(Run.laid, TRIPLE * k + 3)
      <4>1. Current \in Nat /\ Current \in 0 .. Current
        BY <1>m, <2>2
      <4>2. /\ DESTINATION + k \in DOMAIN dMem /\ DESTINATION + k # SECOND + Current
            /\ THIRD + k \in DOMAIN dMem /\ SECOND + Current # THIRD + k
            /\ SECOND + k \in DOMAIN dMem
        BY <1>m, <2>2, <4>1
      <4>3. CASE k = Current
        BY <2>5, <2>6, <4>2, <4>3
      <4>4. CASE k # Current
        <5>1. k \in 0 .. Current - 1 /\ SECOND + k # SECOND + Current
          BY <1>0, <4>1, <4>4
        <5>2. /\ dMem[DESTINATION + k] = LaidAt(Run.laid, TRIPLE * k + 1)
              /\ dMem[SECOND + k] = LaidAt(Run.laid, TRIPLE * k + 2)
              /\ dMem[THIRD + k] = LaidAt(Run.laid, TRIPLE * k + 3)
          BY <1>2, <2>2, <5>1 DEF StoredUpTo
        <5> QED
          BY <2>5, <4>2, <5>1, <5>2
      <4> QED
        BY <4>3, <4>4
    <3>2. (Current + 1) - 1 = Current
      BY <1>m, <2>2
    <3> QED
      BY <1>3, <2>4, <3>1, <3>2 DEF StoredUpTo
  <2>8. Underway'
    BY <2>3 DEF Underway
  <2> QED
    BY <1>2, <2>3, <2>4, <2>5, <2>7, <2>8 DEF RightPhase
<1>15. CASE dpc = "byteStore"
  <2>1. Driver!SpcByteStore
    BY <1>1, <1>15, DriverAt
  <2>2. dpc # Run.entry /\ ~Loop
    BY <1>3, <1>4, <1>15 DEF LoopLabels
  <2>3. /\ dpc' = "byteLoop" /\ dMem' = [dMem EXCEPT ![DESTINATION + Current] = dA]
        /\ dY' = Driver!NextIndex /\ dEcho' = dEcho /\ dDest' = Driver!Carry(dDest)
    BY <1>m, <2>1, <2>2 DEF Driver!SpcByteStore, Driver!SpcGoto
  <2>4. HandshakeRight' /\ PointersRight' /\ Current' = Current + 1
    <3>1. ~owed' /\ dpc' = Run.entry
      BY <1>3, <1>5, <1>15, <2>2, <2>3 DEF Acknowledges
    <3> QED
      BY <1>1, <1>2, <1>15, <2>2, <2>3, <3>1, AdvanceStep
  <2>5. /\ dMem'[DESTINATION + Current] = dA /\ DOMAIN dMem' = DOMAIN dMem
        /\ \A n \in DOMAIN dMem : n # DESTINATION + Current => dMem'[n] = dMem[n]
    BY <1>m, <2>2, <2>3, WrittenAt
  <2>6. dA = byte(1)
    BY <1>2, <1>15 DEF Underway
  <2>7. StoredUpTo(Current)'
    BY <1>2, <1>3, <1>m, <2>2, <2>4, <2>5, <2>6 DEF StoredUpTo
  <2>8. Underway'
    BY <2>3 DEF Underway
  <2> QED
    BY <1>2, <2>3, <2>4, <2>5, <2>7, <2>8 DEF RightPhase
<1> QED
  BY <1>3, <1>4, <1>7, <1>8, <1>9, <1>10, <1>11, <1>12, <1>13, <1>14, <1>15 DEF LoopLabels

\* The answer to a right run counts the triple that is being stored.
LEMMA RightReply ==
  ASSUME Run \in BenchRuns, RightPhase, Reply
  PROVE  RightPhase'
<1> DEFINE h == console.handshakes
           z == (console.counter + 1) % ByteValues
<1>1. /\ owed /\ ~owed' /\ plan' = plan
      /\ UNCHANGED <<dpc, dEcho, dY, dKind, dDest, dTwo, dThree, dX, dA, dMem>>
      /\ console' = [at |-> console.at + TRIPLE, counter |-> z, handshakes |-> h + 1, seen |-> dEcho]
      /\ dOut' = offer(Run.laid, console.at + TRIPLE, z)
  BY DEF Reply
<1>2. HandshakeRight /\ PointersRight /\ StoredUpTo(Current) /\ Underway /\ DOMAIN dMem = 0 .. MemoryEnd - 1
  BY DEF RightPhase
<1>3. dpc \in {"byteStore", "storeThree"} /\ dpc # Run.entry /\ Run' = Run /\ Triples(Run) \in Nat
  BY <1>1, <1>2, RunSizes DEF HandshakeRight, Run, RoomFor
<1>4. Current = h /\ h \in Nat /\ h < Triples(Run) /\ console.at = 3 * h /\ console.counter = h % ByteValues
  BY <1>1, <1>2, <1>3 DEF Current, HandshakeRight, TRIPLE
<1>5. z = (h + 1) % ByteValues
  <2>1. ByteValues \in Nat \ {0} /\ 1 \in Nat
    BY BenchSizes
  <2>2. ((h % ByteValues) + 1) % ByteValues = (h + 1) % ByteValues
    BY <1>4, <2>1, ModAdd, Zenon
  <2> QED
    BY <1>4, <2>2
<1> HIDE DEF z
<1>6. /\ console'.handshakes = h + 1 /\ console'.at = TRIPLE * (h + 1) /\ console'.counter = (h + 1) % ByteValues
      /\ console'.seen = dEcho /\ dOut' = offer(Run.laid, TRIPLE * (h + 1), (h + 1) % ByteValues)
  <2>1. console.at + TRIPLE = TRIPLE * (h + 1)
    BY <1>4 DEF TRIPLE
  <2> QED
    BY <1>1, <1>5, <2>1
<1>7. Current' = Current
  BY <1>1, <1>3, <1>4, <1>6 DEF Current, PastEcho
<1>8. HandshakeRight'
  <2>1. dEcho = h % ByteValues /\ dY = h % ByteValues /\ dpc \in LoopLabels(Run)
    BY <1>1, <1>2, <1>4 DEF HandshakeRight
  <2>2. (h + 1) - 1 = h /\ h + 1 # 0 /\ h + 1 \in 0 .. Triples(Run) /\ dEcho' = dEcho /\ dY' = dY
    BY <1>1, <1>3, <1>4
  <2>3. LoopLabels(Run)' = LoopLabels(Run) /\ Triples(Run)' = Triples(Run) /\ dpc' = dpc
    BY <1>1, <1>3 DEF LoopLabels, Triples
  <2> QED
    BY <1>1, <1>3, <1>4, <1>6, <1>7, <2>1, <2>2, <2>3 DEF HandshakeRight
<1>9. PointersRight' /\ StoredUpTo(Current)' /\ Underway'
  BY <1>1, <1>2, <1>3, <1>7 DEF PointersRight, StoredUpTo, Underway
<1> QED
  BY <1>1, <1>2, <1>8, <1>9 DEF RightPhase

\* A counter that starts one late is taken for a jump: the payload is read as
\* headers, and the first that is not zero opens a block the counter never opens.
LEMMA LateStep ==
  ASSUME Run \in BenchRuns, ~RightRun(Run), LateCounter, StepDriver
  PROVE  LateCounter'
<1> DEFINE h == console.handshakes
           lead(n) == LaidAt(Run.laid, TRIPLE * n + 1)
<1>0. ByteValues \in Nat /\ ByteValues >= 4 /\ Run.unit
  BY BenchSizes, WrongRuns
<1>1. ~owed /\ Driver!Spc /\ dOut' = dOut /\ console' = console /\ plan' = plan /\ Run' = Run
  BY OwedBy DEF Run
<1>2. owed' <=> dEcho' # console.seen
  BY <1>0, OwedBy
<1>3. /\ h \in Nat /\ console.at = TRIPLE * h /\ console.counter = (h + 1) % ByteValues
      /\ dOut = offer(Run.laid, TRIPLE * h, (h + 1) % ByteValues)
      /\ dpc \in {"tripleLoop", "header", "headerKind", "headerEcho", "ready", "blockStart"}
      /\ dpc = "tripleLoop" => h = 0 /\ dY = 0
      /\ dpc # "blockStart" => \A n \in 0 .. h - 1 : lead(n) = 0
      /\ dpc = "headerEcho" => dKind = lead(h)
      /\ dpc = "blockStart" => dOut[0] # 0
      /\ dEcho = console.seen
  BY <1>1 DEF LateCounter
<1>4. dOut[0] = (h + 1) % ByteValues /\ dOut[1] = lead(h)
  BY <1>3, OfferIs
<1>5. CASE dpc = "tripleLoop"
  <2>1. dOut[0] = 1
    BY <1>0, <1>3, <1>4, <1>5
  <2>2. ~Driver!StillAhead(dY, dOut[0])
    <3>1. Driver!Difference(0, 1) = ByteValues - 1
      BY <1>0 DEF Driver!Difference
    <3> QED
      BY <1>0, <1>3, <1>5, <2>1, <3>1 DEF Driver!StillAhead
  <2>3. Driver!SpcTripleLoop
    BY <1>1, <1>5, DriverAt
  <2>4. dpc' = "header" /\ dEcho' = dEcho /\ dKind' = dKind
    BY <1>3, <1>5, <2>1, <2>3 DEF Driver!SpcTripleLoop
  <2>5. ~owed'
    BY <1>2, <1>3, <2>4
  <2> QED
    BY <1>1, <1>3, <1>5, <2>4, <2>5 DEF LateCounter
<1>6. CASE dpc \in {"header", "headerKind", "ready"}
  <2>1. /\ dpc = "header" => Driver!SpcHeaderDest
        /\ dpc = "headerKind" => Driver!SpcHeaderKind
        /\ dpc = "ready" => Driver!SpcReady
    BY <1>1, DriverAt
  <2>2. /\ dpc = "header" => dpc' = "headerKind" /\ dEcho' = dEcho
        /\ dpc = "headerKind" => dpc' = "headerEcho" /\ dKind' = dOut[1] /\ dEcho' = dEcho
        /\ dpc = "ready" => dpc' = "header" /\ dEcho' = dEcho
    BY <2>1 DEF Driver!SpcHeaderDest, Driver!SpcHeaderKind, Driver!SpcReady, Driver!SpcGoto
  <2>3. ~owed'
    BY <1>2, <1>3, <1>6, <2>2
  <2> QED
    BY <1>1, <1>3, <1>4, <1>6, <2>2, <2>3 DEF LateCounter
<1>7. CASE dpc = "headerEcho"
  <2>1. Driver!SpcHeaderEcho
    BY <1>1, <1>7, DriverAt
  <2>2. dEcho' = dY /\ dpc' = (IF lead(h) = 0 THEN "ready" ELSE "blockStart")
    BY <1>3, <1>7, <2>1 DEF Driver!SpcHeaderEcho
  <2>3. ASSUME lead(h) # 0 PROVE h <= ByteValues - 3 /\ dOut[0] # 0
    <3>1. PICK n \in Nat : n <= ByteValues - 3 /\ lead(n) # 0
      BY <1>3, <2>3, WrongRuns
    <3>2. h <= n
      BY <1>3, <1>7, <3>1
    <3>3. h + 1 \in 0 .. ByteValues - 1
      BY <1>0, <1>3, <3>1, <3>2
    <3>4. (h + 1) % ByteValues = h + 1
      BY <1>0, <3>3, ModSmall
    <3> QED
      BY <1>0, <1>3, <1>4, <3>1, <3>2, <3>4
  <2>5. ~owed' => dEcho' = console'.seen
    BY <1>1, <1>2
  <2> QED
    BY <1>1, <1>3, <1>7, <2>2, <2>3, <2>5 DEF LateCounter
<1>8. CASE dpc = "blockStart"
  <2>1. Driver!SpcBlockStart
    BY <1>1, <1>8, DriverAt
  <2> QED
    BY <1>3, <1>8, <2>1 DEF Driver!SpcBlockStart
<1> QED
  BY <1>3, <1>5, <1>6, <1>7, <1>8

\* Each header is answered with the next triple.
LEMMA LateReply ==
  ASSUME Run \in BenchRuns, ~RightRun(Run), LateCounter, Reply
  PROVE  LateCounter'
<1> DEFINE h == console.handshakes
           z == (console.counter + 1) % ByteValues
           lead(n) == LaidAt(Run.laid, TRIPLE * n + 1)
<1>0. ByteValues \in Nat /\ ByteValues >= 4
  BY BenchSizes
<1>1. /\ owed /\ ~owed' /\ plan' = plan /\ Run' = Run
      /\ UNCHANGED <<dpc, dEcho, dY, dKind>>
      /\ console' = [at |-> console.at + TRIPLE, counter |-> z, handshakes |-> h + 1, seen |-> dEcho]
      /\ dOut' = offer(Run.laid, console.at + TRIPLE, z)
  BY DEF Reply, Run
<1>2. /\ h \in Nat /\ console.at = TRIPLE * h /\ console.counter = (h + 1) % ByteValues
      /\ dpc \in {"ready", "blockStart"}
      /\ dpc = "ready" => lead(h) = 0 /\ \A n \in 0 .. h - 1 : lead(n) = 0
      /\ dpc = "blockStart" => h <= ByteValues - 3
  BY <1>1 DEF LateCounter
<1>3. z = ((h + 1) + 1) % ByteValues
  <2>1. ByteValues \in Nat \ {0} /\ 1 \in Nat /\ h + 1 \in Nat
    BY <1>0, <1>2
  <2>2. (((h + 1) % ByteValues) + 1) % ByteValues = ((h + 1) + 1) % ByteValues
    BY <2>1, ModAdd, Zenon
  <2> QED
    BY <1>2, <2>2
<1> HIDE DEF z
<1>4. /\ console'.handshakes = h + 1 /\ console'.at = TRIPLE * (h + 1) /\ console'.counter = ((h + 1) + 1) % ByteValues
      /\ console'.seen = dEcho /\ dOut' = offer(Run.laid, TRIPLE * (h + 1), ((h + 1) + 1) % ByteValues)
  <2>1. console.at + TRIPLE = TRIPLE * (h + 1)
    BY <1>2 DEF TRIPLE
  <2> QED
    BY <1>1, <1>3, <2>1
<1>5. dpc = "blockStart" => dOut'[0] # 0
  <2> SUFFICES ASSUME dpc = "blockStart" PROVE dOut'[0] # 0
    OBVIOUS
  <2>1. (h + 1) + 1 \in 0 .. ByteValues - 1
    BY <1>0, <1>2
  <2>2. ((h + 1) + 1) % ByteValues = (h + 1) + 1
    BY <1>0, <2>1, ModSmall
  <2>3. dOut'[0] = ((h + 1) + 1) % ByteValues
    BY <1>4, OfferIs
  <2> QED
    BY <1>2, <2>2, <2>3
<1>6. dpc = "ready" => \A n \in 0 .. (h + 1) - 1 : lead(n) = 0
  BY <1>2
<1> QED
  BY <1>1, <1>2, <1>4, <1>5, <1>6 DEF LateCounter

\* A latch that reads what the first acknowledgement will be: it goes unseen,
\* and the driver waits for the next counter.
LEMMA HiddenStep ==
  ASSUME Run \in BenchRuns, ~RightRun(Run), Run.counter = FIRST_COUNTER, HiddenEcho, StepDriver
  PROVE  HiddenEcho'
<1>0. ByteValues \in Nat /\ ByteValues >= 4 /\ Run.unit /\ Run.entry = "tripleLoop"
  BY BenchSizes, WrongRuns
<1>1. ~owed /\ Driver!Spc /\ dOut' = dOut /\ console' = console /\ plan' = plan /\ Run' = Run
  BY OwedBy DEF Run
<1>2. owed' <=> dEcho' # console.seen
  BY <1>0, OwedBy
<1>3. /\ console = [at |-> 0, counter |-> 0, handshakes |-> 0, seen |-> 0]
      /\ dOut = offer(Run.laid, 0, 0) /\ dEcho = 0 /\ console.seen = 0
      /\ dpc \in {"tripleLoop", "storeOne", "readTwo", "readThree", "tripleEcho", "storeThree", "storeTwo"}
      /\ dY \in {0, 1} /\ (dY = 1 => dpc = "tripleLoop")
  BY <1>0 DEF HiddenEcho, LoopLabels
<1>4. dOut[0] = 0
  BY <1>3, OfferIs
<1>5. /\ dEcho' = 0 /\ dY' \in {0, 1} /\ (dY' = 1 => dpc' = "tripleLoop")
      /\ dpc' \in {"tripleLoop", "storeOne", "readTwo", "readThree", "tripleEcho", "storeThree", "storeTwo"}
  <2>1. CASE dpc = "tripleLoop"
    <3>1. Driver!SpcTripleLoop
      BY <1>1, <2>1, DriverAt
    <3>2. Driver!StillAhead(1, 0)
      <4>1. Driver!Difference(1, 0) = 1
        BY DEF Driver!Difference
      <4> QED
        BY <1>0, <4>1 DEF Driver!StillAhead
    <3>3. dY = 0
      BY <1>3, <1>4, <3>1, <3>2 DEF Driver!SpcTripleLoop
    <3> QED
      BY <1>3, <1>4, <3>1, <3>3 DEF Driver!SpcTripleLoop
  <2>2. CASE dpc \in {"storeOne", "readTwo", "readThree", "storeThree"}
    <3>1. /\ dpc = "storeOne" => Driver!SpcStoreOne
          /\ dpc = "readTwo" => Driver!SpcReadTwo
          /\ dpc = "readThree" => Driver!SpcReadThree
          /\ dpc = "storeThree" => Driver!SpcStoreThree
      BY <1>1, DriverAt
    <3> QED
      BY <1>3, <2>2, <3>1 DEF Driver!SpcStoreOne, Driver!SpcReadTwo, Driver!SpcReadThree, Driver!SpcStoreThree, Driver!SpcGoto
  <2>3. CASE dpc = "tripleEcho"
    <3>1. Driver!SpcTripleEcho
      BY <1>1, <2>3, DriverAt
    <3> QED
      BY <1>3, <2>3, <3>1 DEF Driver!SpcTripleEcho, Driver!SpcGoto
  <2>4. CASE dpc = "storeTwo"
    <3>1. Driver!SpcStoreTwo
      BY <1>1, <2>4, DriverAt
    <3>2. (0 + 1) % ByteValues = 1
      BY <1>0
    <3> QED
      BY <1>3, <2>4, <3>1, <3>2 DEF Driver!SpcStoreTwo, Driver!SpcGoto, Driver!NextIndex
  <2> QED
    BY <1>3, <2>1, <2>2, <2>3, <2>4
<1>6. ~owed'
  BY <1>2, <1>3, <1>5
<1> QED
  BY <1>0, <1>1, <1>3, <1>5, <1>6 DEF HiddenEcho, LoopLabels

\* A run is set up as its kind of run starts.
LEMMA LoadStep ==
  ASSUME plan # <<>>, Run \in BenchRuns, ~owed, DOMAIN dMem = 0 .. MemoryEnd - 1, Load
  PROVE  BenchPhase'
<1>0. /\ ByteValues \in Nat /\ ByteValues >= 4 /\ Triples(Run) \in Nat /\ Run.entry \in {"byteLoop", "tripleLoop"}
      /\ Run.counter \in {0, 1}
      /\ ~RightRun(Run) => Run.entry = "tripleLoop" /\ (Run.counter = FIRST_COUNTER => Run.unechoed = 0)
  <2>1. RoomFor(Run)
    BY RunSizes
  <2> QED
    BY <2>1, BenchSizes, WrongRuns DEF RoomFor
<1>1. /\ dpc' = Run.entry /\ dY' = 0 /\ dDest' = DESTINATION /\ dTwo' = SECOND /\ dThree' = THIRD
      /\ dMem' = [n \in DOMAIN dMem |-> 0] /\ dEcho' = Run.unechoed
      /\ dOut' = offer(Run.laid, 0, Run.counter)
      /\ console' = [at |-> 0, counter |-> Run.counter, handshakes |-> 0, seen |-> Run.unechoed]
      /\ plan' = plan /\ owed' = owed /\ Run' = Run
  BY DEF Load, Run
<1>2. dpc' # "off"
  BY <1>0, <1>1
<1>3. DOMAIN dMem' = DOMAIN dMem
  BY <1>1
<1>4. CASE RightRun(Run)
  <2>1. Run.counter = 0 /\ 0 % ByteValues = 0 /\ TRIPLE * 0 = 0
    BY <1>0, <1>4 DEF RightRun, FIRST_COUNTER, TRIPLE
  <2>2. Current' = 0
    BY <1>0, <1>1 DEF Current, PastEcho
  <2>3. HandshakeRight'
    <3>1. dpc' \in LoopLabels(Run)' /\ Triples(Run)' \in Nat /\ Triples(Run)' = Triples(Run)
      BY <1>0, <1>1 DEF LoopLabels, Triples
    <3> QED
      BY <1>1, <2>1, <2>2, <3>1 DEF HandshakeRight
  <2>4. DESTINATION \in Nat /\ SECOND \in Nat /\ THIRD \in Nat
    BY BenchSizes
  <2>5. PointersRight' /\ StoredUpTo(Current)'
    BY <1>1, <2>2, <2>4 DEF PointersRight, StoredUpTo
  <2>6. Underway'
    BY <1>0, <1>1 DEF Underway
  <2>7. RightPhase'
    BY <1>1, <1>3, <2>3, <2>5, <2>6 DEF RightPhase
  <2>8. RightRun(Run)'
    BY <1>1, <1>4 DEF RightRun
  <2> QED
    BY <1>1, <1>2, <1>3, <2>7, <2>8 DEF BenchPhase
<1>5. CASE ~RightRun(Run) /\ Run.counter # FIRST_COUNTER
  <2>1. Run.counter = 1 /\ (0 + 1) % ByteValues = 1 /\ TRIPLE * 0 = 0
    BY <1>0, <1>5 DEF FIRST_COUNTER, TRIPLE
  <2>2. dpc' = "tripleLoop" /\ console'.handshakes = 0 /\ console'.at = 0 /\ console'.counter = 1 /\ console'.seen = dEcho'
    BY <1>0, <1>1, <1>5, <2>1
  <2>3. LateCounter'
    BY <1>1, <2>1, <2>2 DEF LateCounter
  <2>4. ~RightRun(Run)' /\ Run'.counter # FIRST_COUNTER
    BY <1>1, <1>5 DEF RightRun
  <2> QED
    BY <1>1, <1>2, <1>3, <2>3, <2>4 DEF BenchPhase
<1>6. CASE ~RightRun(Run) /\ Run.counter = FIRST_COUNTER
  <2>1. Run.counter = 0 /\ Run.unechoed = 0
    BY <1>0, <1>6 DEF FIRST_COUNTER
  <2>2. HiddenEcho'
    BY <1>0, <1>1, <1>6, <2>1 DEF HiddenEcho, LoopLabels
  <2>3. ~RightRun(Run)' /\ Run'.counter = FIRST_COUNTER
    BY <1>1, <1>6 DEF RightRun
  <2> QED
    BY <1>1, <1>2, <1>3, <2>2, <2>3 DEF BenchPhase
<1> QED
  BY <1>4, <1>5, <1>6

\* The driver writes places of its memory and adds none.
LEMMA MemoryWhole ==
  ASSUME BenchNext
  PROVE  DOMAIN dMem' = DOMAIN dMem
<1>1. CASE Driver!Spc
  <2>1. ASSUME NEW at, NEW value, dMem' = [dMem EXCEPT ![at] = value] PROVE DOMAIN dMem' = DOMAIN dMem
    BY <2>1
  <2>2. CASE Driver!SpcReady \/ Driver!SpcHeaderDest \/ Driver!SpcHeaderKind \/ Driver!SpcHeaderEcho
               \/ Driver!SpcBlockStart \/ Driver!SpcDispatch \/ Driver!SpcByteLoop \/ Driver!SpcByteRead \/ Driver!SpcByteEcho
    BY <2>2 DEF Driver!SpcReady, Driver!SpcHeaderDest, Driver!SpcHeaderKind, Driver!SpcHeaderEcho, Driver!SpcBlockStart,
                Driver!SpcDispatch, Driver!SpcByteLoop, Driver!SpcByteRead, Driver!SpcByteEcho
  <2>3. CASE Driver!SpcSetupTwo \/ Driver!SpcSetupThree \/ Driver!SpcSetupEcho \/ Driver!SpcTripleLoop
               \/ Driver!SpcReadTwo \/ Driver!SpcReadThree \/ Driver!SpcTripleEcho
    BY <2>3 DEF Driver!SpcSetupTwo, Driver!SpcSetupThree, Driver!SpcSetupEcho, Driver!SpcTripleLoop,
                Driver!SpcReadTwo, Driver!SpcReadThree, Driver!SpcTripleEcho
  <2>4. CASE Driver!SpcStoreOne
    BY <2>1, <2>4 DEF Driver!SpcStoreOne
  <2>5. CASE Driver!SpcStoreTwo
    BY <2>1, <2>5 DEF Driver!SpcStoreTwo
  <2>6. CASE Driver!SpcStoreThree
    BY <2>1, <2>6 DEF Driver!SpcStoreThree
  <2>7. CASE Driver!SpcByteStore
    BY <2>1, <2>7 DEF Driver!SpcByteStore
  <2> QED
    BY <1>1, <2>2, <2>3, <2>4, <2>5, <2>6, <2>7 DEF Driver!Spc
<1>2. CASE Load
  BY <1>2 DEF Load
<1>3. CASE StepDriver
  BY <1>1, <1>3 DEF StepDriver
<1>4. CASE Reply
  BY <1>4 DEF Reply
<1>5. CASE Transfer \/ RunLimit
  BY <1>5 DEF Transfer, RunLimit, Came
<1> QED
  BY <1>2, <1>3, <1>4, <1>5 DEF BenchNext

\* A run that comes back is put behind the others, and the next one is taken up.
LEMMA CameStep ==
  ASSUME PlanKept, plan # <<>>, NEW result, result.run = Run, Came(result)
  PROVE  /\ PlanKept' /\ DOMAIN transfers' = 1 .. Len(transfers') /\ Len(transfers') = Len(transfers) + 1
         /\ \A n \in 1 .. Len(transfers) : transfers'[n] = transfers[n]
         /\ transfers'[Len(transfers) + 1] = result
<1> DEFINE S == {transfers[n] : n \in DOMAIN transfers} \cup {result}
           m == Len(transfers)
<1>1. transfers' = Append(transfers, result) /\ plan' = Tail(plan)
  BY DEF Came
<1>2. plan \in Seq(BenchRuns) /\ transfers \in Seq({transfers[n] : n \in DOMAIN transfers})
  BY DEF PlanKept
<1>3. transfers \in Seq(S) /\ result \in S
  BY <1>2
<1> HIDE DEF S
<1>4. /\ transfers' \in Seq(S) /\ m \in Nat /\ Len(transfers') = m + 1
      /\ \A n \in 1 .. m : transfers'[n] = transfers[n]
      /\ transfers'[m + 1] = result
  BY <1>1, <1>3, AppendProperties
<1>5. DOMAIN transfers' = 1 .. Len(transfers') /\ transfers' \in Seq({transfers'[n] : n \in DOMAIN transfers'})
  BY <1>4
<1>6. /\ plan' \in Seq(BenchRuns) /\ Len(plan) \in Nat /\ Len(plan) >= 1 /\ Len(plan') = Len(plan) - 1
      /\ \A k \in 1 .. Len(plan') : plan'[k] = plan[k + 1]
      /\ Run = plan[1]
  BY <1>1, <1>2 DEF Run
<1>7. PICK asked \in Plans \cup {<<>>} :
        /\ Len(asked) = m + Len(plan)
        /\ \A k \in 1 .. m : transfers[k].run = asked[k]
        /\ \A k \in 1 .. Len(plan) : plan[k] = asked[m + k]
  BY DEF PlanKept
<1> HIDE DEF m
<1>8. /\ Len(asked) = Len(transfers') + Len(plan')
      /\ \A k \in 1 .. Len(transfers') : transfers'[k].run = asked[k]
      /\ \A k \in 1 .. Len(plan') : plan'[k] = asked[Len(transfers') + k]
  <2>1. Len(asked) = Len(transfers') + Len(plan')
    BY <1>4, <1>6, <1>7
  <2>2. ASSUME NEW k \in 1 .. Len(transfers') PROVE transfers'[k].run = asked[k]
    <3>1. CASE k \in 1 .. m
      BY <1>4, <1>7, <3>1
    <3>2. CASE k = m + 1
      <4>1. 1 \in 1 .. Len(plan)
        BY <1>6
      <4>2. plan[1] = asked[m + 1]
        BY <1>7, <4>1
      <4>3. result.run = plan[1]
        BY <1>6, Zenon
      <4> QED
        BY <1>4, <3>2, <4>2, <4>3, Zenon
    <3> QED
      BY <1>4, <3>1, <3>2
  <2>3. ASSUME NEW k \in 1 .. Len(plan') PROVE plan'[k] = asked[Len(transfers') + k]
    <3>1. k + 1 \in 1 .. Len(plan) /\ Len(transfers') + k = m + (k + 1)
      BY <1>4, <1>6
    <3> QED
      BY <1>6, <1>7, <3>1
  <2> QED
    BY <2>1, <2>2, <2>3
<1>9. PlanKept'
  <2>1. asked \in (Plans \cup {<<>>})'
    BY <1>7 DEF Plans
  <2> QED
    BY <1>5, <1>6, <1>8, <2>1 DEF PlanKept
<1> QED
  BY <1>4, <1>5, <1>9 DEF m

\* A run that has come to its end is a right one and has stored all of it.
LEMMA TransferIsOver ==
  ASSUME BenchPhase, Run \in BenchRuns, Transfer
  PROVE  Over([run |-> Run, raised |-> FALSE, handshakes |-> console.handshakes,
               streams |-> [k \in 1 .. 3 |-> ReadBack(<<DESTINATION, SECOND, THIRD>>[k], Run.carried)]])
<1> DEFINE place == <<DESTINATION, SECOND, THIRD>>
           t == [run |-> Run, raised |-> FALSE, handshakes |-> console.handshakes,
                 streams |-> [k \in 1 .. 3 |-> ReadBack(place[k], Run.carried)]]
           N == Triples(Run)
<1>1. plan # <<>> /\ ~owed /\ Spent /\ dpc = Run.entry
  BY DEF Transfer, Stopped
<1>2. /\ N \in Nat \ {0} /\ Run.carried \in 0 .. N /\ Run.entry \in {"byteLoop", "tripleLoop"}
      /\ Len(Run.laid) \in Nat \ {0} /\ Len(Run.laid) <= 3 * N /\ 3 * N <= Len(Run.laid) + 2
  <2>1. RoomFor(Run)
    BY RunSizes
  <2> QED
    BY <2>1 DEF RoomFor
<1>3. dpc # "off" /\ dpc \notin PastEcho /\ console.at >= Len(Run.laid)
  BY <1>1, <1>2 DEF PastEcho, Spent, spent
<1>4. RightRun(Run)
  <2>1. CASE ~RightRun(Run) /\ Run.counter # FIRST_COUNTER
    <3>1. LateCounter /\ Run.entry = "tripleLoop"
      BY <1>3, <2>1, WrongRuns DEF BenchPhase
    <3>2. console.at = 0
      BY <1>1, <3>1 DEF LateCounter, TRIPLE
    <3> QED
      BY <1>2, <1>3, <3>2
  <2>2. CASE ~RightRun(Run) /\ Run.counter = FIRST_COUNTER
    <3>1. console.at = 0
      BY <1>3, <2>2 DEF BenchPhase, HiddenEcho
    <3> QED
      BY <1>2, <1>3, <3>1
  <2> QED
    BY <2>1, <2>2
<1>5. RightPhase
  BY <1>3, <1>4 DEF BenchPhase
<1>6. Current = N /\ console.handshakes = N
  <2>1. Current = console.handshakes /\ console.handshakes \in 0 .. N /\ console.at = 3 * console.handshakes
    BY <1>3, <1>5 DEF RightPhase, HandshakeRight, Current, TRIPLE
  <2> QED
    BY <1>2, <1>3, <2>1
<1>7. StoredUpTo(N)
  BY <1>5, <1>6 DEF RightPhase
<1>8. ASSUME NEW k \in 1 .. 3, Run.entry = "byteLoop" => k = 1
      PROVE  t.streams[k] = Taken(t, k)
  <2>1. t.streams[k] = [n \in 1 .. Run.carried |-> dMem[place[k] + n - 1]]
    BY DEF ReadBack
  <2>2. Taken(t, k) = [n \in 1 .. Run.carried |-> LaidAt(Run.laid, TRIPLE * (n - 1) + k)]
    BY DEF Taken, LaidAt
  <2>3. ASSUME NEW n \in 1 .. Run.carried
        PROVE  dMem[place[k] + n - 1] = LaidAt(Run.laid, TRIPLE * (n - 1) + k)
    <3>1. n - 1 \in 0 .. N - 1
      BY <1>2
    <3>2. DESTINATION \in Nat /\ SECOND \in Nat /\ THIRD \in Nat
      BY BenchSizes
    <3>3. place[1] = DESTINATION /\ place[2] = SECOND /\ place[3] = THIRD
      OBVIOUS
    <3>4. place[k] + n - 1 = place[k] + (n - 1)
      BY <3>2, <3>3
    <3> HIDE DEF place
    <3>5. CASE k = 1
      BY <1>7, <3>1, <3>3, <3>4, <3>5 DEF StoredUpTo
    <3>6. CASE k # 1
      BY <1>2, <1>7, <1>8, <3>1, <3>3, <3>4, <3>6 DEF StoredUpTo
    <3> QED
      BY <3>5, <3>6
  <2> QED
    BY <2>1, <2>2, <2>3
<1>9. t.run = Run /\ t.raised = FALSE /\ t.handshakes = N /\ t.streams = [k \in 1 .. 3 |-> t.streams[k]]
  BY <1>6
<1> HIDE DEF t
<1>10. \A k \in (IF t.run.entry = "byteLoop" THEN {1} ELSE 1 .. 3) : t.streams[k] = Taken(t, k)
  BY <1>2, <1>8, <1>9
<1>11. Over(t)
  BY <1>4, <1>9, <1>10 DEF Over
<1> QED
  BY <1>11 DEF t

\* Only a wrong run is given up.
LEMMA LimitIsOver ==
  ASSUME BenchPhase, Run \in BenchRuns, RunLimit
  PROVE  ~RightRun(Run)
<1> SUFFICES ASSUME RightRun(Run) PROVE FALSE
  OBVIOUS
<1>1. dpc # "off" /\ ~owed /\ ~Stopped /\ (Waiting \/ console.handshakes > CEILING)
  BY DEF RunLimit
<1>2. RightPhase
  BY <1>1 DEF BenchPhase
<1>3. Triples(Run) <= CEILING /\ Triples(Run) \in Nat /\ CEILING \in Nat /\ Run.entry \in {"byteLoop", "tripleLoop"}
  <2>1. RoomFor(Run)
    BY RunSizes
  <2> QED
    BY <2>1, BenchSizes DEF RoomFor
<1>4. console.handshakes \in 0 .. Triples(Run) /\ dpc \in LoopLabels(Run)
  BY <1>2 DEF RightPhase, HandshakeRight
<1>5. dpc \in {"tripleLoop", "byteLoop"} /\ dY # dOut[0]
  BY <1>1, <1>3, <1>4 DEF Waiting, LoopLabels
<1>6. dOut[0] = dY
  BY <1>2, <1>5, RightPorts DEF RightPhase, PastEcho
<1> QED
  BY <1>5, <1>6

\* The invariant of the runs survives a step of the bench.
LEMMA BenchStep ==
  ASSUME BenchInv, BenchNext
  PROVE  BenchInv'
<1>1. PlanKept /\ BenchPhase /\ \A n \in 1 .. Len(transfers) : Over(transfers[n])
  BY DEF BenchInv
<1>2. plan # <<>>
  <2>1. Load \/ StepDriver \/ Transfer \/ RunLimit => plan # <<>>
    BY DEF Load, StepDriver, Transfer, RunLimit
  <2>2. Reply => plan # <<>>
    <3>1. dpc = "off" => ~owed
      BY <1>1 DEF BenchPhase
    <3>2. dpc # "off" => plan # <<>>
      BY <1>1 DEF BenchPhase
    <3> QED
      BY <3>1, <3>2 DEF Reply
  <2> QED
    BY <2>1, <2>2 DEF BenchNext
<1>3. Run \in BenchRuns
  BY <1>1, <1>2 DEF PlanKept, Run
<1>4. DOMAIN dMem' = 0 .. MemoryEnd - 1
  BY <1>1, MemoryWhole DEF BenchPhase
<1>5. ASSUME plan' = plan, transfers' = transfers, BenchPhase' PROVE BenchInv'
  <2>1. PlanKept'
    BY <1>1, <1>5 DEF PlanKept
  <2>2. \A n \in 1 .. Len(transfers') : Over(transfers[n])'
    BY <1>1, <1>5 DEF Over, RightRun, Triples, Taken
  <2> QED
    BY <1>5, <2>1, <2>2 DEF BenchInv
<1>6. CASE Load
  <2>1. BenchPhase'
    BY <1>1, <1>2, <1>3, <1>6, LoadStep DEF Load, BenchPhase
  <2> QED
    BY <1>5, <1>6, <2>1 DEF Load
<1>7. CASE StepDriver \/ Reply
  <2>1. plan' = plan /\ transfers' = transfers /\ Run' = Run
    BY <1>7 DEF StepDriver, Reply, Run
  <2>2. dpc # "off"
    BY <1>1, <1>7 DEF StepDriver, Reply, BenchPhase
  <2>3. RightRun(Run)' <=> RightRun(Run)
    BY <2>1 DEF RightRun
  <2>4. CASE RightRun(Run)
    <3>1. RightPhase
      BY <1>1, <2>2, <2>4 DEF BenchPhase
    <3>2. RightPhase'
      BY <1>3, <1>7, <2>4, <3>1, RightStep, RightReply
    <3>3. dpc' # "off"
      <4>1. dpc' \in LoopLabels(Run)' /\ Run'.entry \in {"byteLoop", "tripleLoop"}
        BY <1>3, <2>1, <3>2, RunSizes DEF RightPhase, HandshakeRight, RoomFor
      <4> QED
        BY <4>1 DEF LoopLabels
    <3>4. BenchPhase'
      BY <1>2, <1>4, <2>1, <2>3, <2>4, <3>2, <3>3 DEF BenchPhase
    <3> QED
      BY <1>5, <2>1, <3>4
  <2>5. CASE ~RightRun(Run) /\ Run.counter # FIRST_COUNTER
    <3>1. LateCounter
      BY <1>1, <2>2, <2>5 DEF BenchPhase
    <3>2. LateCounter'
      BY <1>3, <1>7, <2>5, <3>1, LateStep, LateReply
    <3>3. dpc' # "off"
      BY <3>2 DEF LateCounter
    <3>4. BenchPhase'
      BY <1>2, <1>4, <2>1, <2>3, <2>5, <3>2, <3>3 DEF BenchPhase
    <3> QED
      BY <1>5, <2>1, <3>4
  <2>6. CASE ~RightRun(Run) /\ Run.counter = FIRST_COUNTER
    <3>1. HiddenEcho
      BY <1>1, <2>2, <2>6 DEF BenchPhase
    <3>2. HiddenEcho'
      BY <1>3, <1>7, <2>6, <3>1, HiddenStep DEF Reply, HiddenEcho
    <3>3. dpc' # "off"
      <4>1. dpc' \in LoopLabels(Run)' /\ Run'.entry \in {"byteLoop", "tripleLoop"}
        BY <1>3, <2>1, <3>2, RunSizes DEF HiddenEcho, RoomFor
      <4> QED
        BY <4>1 DEF LoopLabels
    <3>4. BenchPhase'
      BY <1>2, <1>4, <2>1, <2>3, <2>6, <3>2, <3>3 DEF BenchPhase
    <3> QED
      BY <1>5, <2>1, <3>4
  <2> QED
    BY <2>4, <2>5, <2>6
<1>8. ASSUME NEW result, result.run = Run, Over(result), Came(result), ~owed PROVE BenchInv'
  <2>1. /\ PlanKept' /\ DOMAIN transfers' = 1 .. Len(transfers') /\ Len(transfers') = Len(transfers) + 1
        /\ \A n \in 1 .. Len(transfers) : transfers'[n] = transfers[n]
        /\ transfers'[Len(transfers) + 1] = result
    BY <1>1, <1>2, <1>8, CameStep
  <2>2. BenchPhase'
    BY <1>4, <1>8 DEF Came, BenchPhase
  <2>3. Len(transfers) \in Nat
    BY <1>1 DEF PlanKept
  <2>4. \A n \in 1 .. Len(transfers') : Over(transfers'[n])
    BY <1>1, <1>8, <2>1, <2>3
  <2>5. (\A n \in 1 .. Len(transfers) : Over(transfers[n]))'
    BY <2>4 DEF Over, RightRun, Triples, Taken
  <2> QED
    BY <2>1, <2>2, <2>5 DEF BenchInv
<1>9. CASE Transfer
  <2> DEFINE t == [run |-> Run, raised |-> FALSE, handshakes |-> console.handshakes,
                   streams |-> [k \in 1 .. 3 |-> ReadBack(<<DESTINATION, SECOND, THIRD>>[k], Run.carried)]]
  <2>1. Over(t)
    BY <1>1, <1>3, <1>9, TransferIsOver
  <2>2. Came(t) /\ ~owed
    BY <1>9 DEF Transfer
  <2>3. t.run = Run
    OBVIOUS
  <2> HIDE DEF t
  <2> QED
    BY <1>8, <2>1, <2>2, <2>3
<1>10. CASE RunLimit
  <2> DEFINE t == [run |-> Run, raised |-> TRUE, handshakes |-> console.handshakes, streams |-> <<>>]
  <2>1. ~RightRun(Run)
    BY <1>1, <1>3, <1>10, LimitIsOver
  <2>2. Came(t) /\ ~owed
    BY <1>10 DEF RunLimit
  <2>3. t.run = Run /\ t.raised
    OBVIOUS
  <2> HIDE DEF t
  <2>4. Over(t)
    BY <2>1, <2>3 DEF Over
  <2> QED
    BY <1>8, <2>2, <2>3, <2>4
<1> QED
  BY <1>6, <1>7, <1>9, <1>10 DEF BenchNext

\* What was asked for, in the cases main makes of it.
LEMMA PlanIs ==
  ASSUME BenchInv
  PROVE  /\ Len(transfers) \in Nat /\ DOMAIN transfers = 1 .. Len(transfers)
         /\ \A n \in 1 .. Len(transfers) : Over(transfers[n]) /\ transfers[n].run \in BenchRuns
         /\ Len(transfers) = 4 => \E p \in Payloads :
              /\ transfers[1].run = deliver_one_at_a_time(p) /\ transfers[2].run = deliver(p)
              /\ transfers[3].run = on_hardware("byteLoop", spread(p), FIRST_COUNTER, UNECHOED)
              /\ transfers[4].run = on_hardware("tripleLoop", p, FIRST_COUNTER, UNECHOED)
<1>1. PlanKept /\ \A n \in 1 .. Len(transfers) : Over(transfers[n])
  BY DEF BenchInv
<1>2. /\ Len(transfers) \in Nat /\ DOMAIN transfers = 1 .. Len(transfers) /\ Len(plan) \in Nat
  BY <1>1 DEF PlanKept
<1>3. PICK asked \in Plans \cup {<<>>} :
        /\ Len(asked) = Len(transfers) + Len(plan)
        /\ \A k \in 1 .. Len(transfers) : transfers[k].run = asked[k]
  BY <1>1 DEF PlanKept
<1>l. ASSUME NEW few \in Nat, Len(asked) = few PROVE Len(transfers) <= few
  BY <1>2, <1>3, <1>l
<1>4. CASE asked = <<>>
  BY <1>1, <1>2, <1>3, <1>4
<1>5. CASE \E p \in Payloads : asked = MainPlan(p)
  <2>1. PICK p \in Payloads : asked = MainPlan(p)
    BY <1>5
  <2>2. /\ asked[1] = deliver_one_at_a_time(p) /\ asked[2] = deliver(p)
        /\ asked[3] = on_hardware("byteLoop", spread(p), FIRST_COUNTER, UNECHOED)
        /\ asked[4] = on_hardware("tripleLoop", p, FIRST_COUNTER, UNECHOED) /\ Len(asked) = 4
    BY <2>1 DEF MainPlan
  <2>3. \A k \in 1 .. 4 : asked[k] \in BenchRuns
    BY <2>2 DEF BenchRuns, FIRST_COUNTER
  <2>4. ASSUME NEW n \in 1 .. Len(transfers) PROVE Over(transfers[n]) /\ transfers[n].run \in BenchRuns
    <3>1. n \in 1 .. 4
      BY <1>2, <1>l, <2>2
    <3> QED
      BY <1>1, <1>3, <2>3, <3>1
  <2>5. Len(transfers) = 4 => \A k \in 1 .. 4 : transfers[k].run = asked[k]
    BY <1>3
  <2> QED
    BY <1>2, <2>2, <2>4, <2>5
<1>6. CASE \E p \in Payloads, c \in {0, 1}, u \in {0, UNECHOED} : asked = <<on_hardware("tripleLoop", p, c, u)>>
  <2>1. Len(asked) = 1 /\ asked[1] \in BenchRuns
    BY <1>6 DEF BenchRuns
  <2>2. ASSUME NEW n \in 1 .. Len(transfers) PROVE Over(transfers[n]) /\ transfers[n].run \in BenchRuns
    <3>1. n = 1
      BY <1>2, <1>l, <2>1
    <3> QED
      BY <1>1, <1>3, <2>1, <3>1
  <2>3. Len(transfers) # 4
    <3>1. Len(transfers) <= 1
      BY <1>l, <2>1
    <3>2. ~(4 <= 1)
      OBVIOUS
    <3> QED
      BY <3>1, <3>2, Zenon
  <2> QED
    BY <1>2, <2>2, <2>3
<1> QED
  BY <1>3, <1>4, <1>5, <1>6 DEF Plans

\* The two witnesses agree on every byte.
LEMMA WitnessesAgree ==
  ASSUME BenchInv, Len(transfers) = 4
  PROVE  agreed(transfers)
<1>1. PICK p \in Payloads :
        /\ transfers[1].run = deliver_one_at_a_time(p) /\ transfers[2].run = deliver(p)
        /\ transfers[3].run = on_hardware("byteLoop", spread(p), FIRST_COUNTER, UNECHOED)
        /\ transfers[4].run = on_hardware("tripleLoop", p, FIRST_COUNTER, UNECHOED)
  BY PlanIs
<1> DEFINE t(k) == transfers[k]
<1>2. \A k \in 1 .. 4 : Over(t(k)) /\ t(k).run \in BenchRuns
  BY PlanIs
<1>3. UNECHOED # 0 /\ Len(p) \in Nat \ {0}
  BY BenchSizes, PayloadsGiven
<1>4. /\ t(1).run.entry = "byteLoop" /\ t(1).run.laid = spread(p) /\ t(1).run.carried = (Len(p) + 2) \div 3
      /\ t(2).run.entry = "tripleLoop" /\ t(2).run.laid = p /\ t(2).run.carried = (Len(p) + 2) \div 3
      /\ t(3).run.entry = "byteLoop" /\ t(3).run.laid = spread(p) /\ t(3).run.carried = Triples(t(3).run)
      /\ t(4).run.entry = "tripleLoop" /\ t(4).run.laid = p /\ t(4).run.carried = (Len(p) + 2) \div 3
  BY <1>1 DEF deliver_one_at_a_time, deliver, on_hardware, BenchRun, TRIPLE, Triples
<1>5. RightRun(t(1).run) /\ RightRun(t(2).run) /\ RightRun(t(3).run) /\ RightRun(t(4).run)
  <2>1. RightRun(t(1).run) /\ RightRun(t(2).run)
    BY <1>1 DEF deliver_one_at_a_time, deliver, BenchRun, RightRun
  <2>2. RightRun(t(3).run) /\ RightRun(t(4).run)
    BY <1>1, <1>3 DEF on_hardware, BenchRun, RightRun
  <2> QED
    BY <2>1, <2>2
<1>6. t(4).streams = t(2).streams
  <2>1. /\ t(4).streams = [k \in 1 .. 3 |-> t(4).streams[k]] /\ t(2).streams = [k \in 1 .. 3 |-> t(2).streams[k]]
        /\ \A k \in 1 .. 3 : t(4).streams[k] = Taken(t(4), k) /\ t(2).streams[k] = Taken(t(2), k)
    BY <1>2, <1>4, <1>5 DEF Over
  <2>2. \A k \in 1 .. 3 : Taken(t(4), k) = Taken(t(2), k)
    BY <1>4 DEF Taken
  <2> HIDE DEF t
  <2> QED
    BY <2>1, <2>2
<1>7. IsPrefix(t(1).streams[1], t(3).streams[1])
  <2>1. t(1).streams[1] = Taken(t(1), 1) /\ t(3).streams[1] = Taken(t(3), 1)
    BY <1>2, <1>4, <1>5 DEF Over
  <2> DEFINE few == t(1).run.carried
             many == t(3).run.carried
             f(n) == LaidAt(spread(p), TRIPLE * (n - 1) + 1)
  <2>2. few \in Nat /\ many \in Nat /\ few <= many
    <3>1. t(3).run.carried = Triples(t(1).run) /\ RoomFor(t(1).run) /\ RoomFor(t(3).run)
      BY <1>2, <1>4, RunSizes DEF Triples
    <3> QED
      BY <3>1 DEF RoomFor
  <2>3. Taken(t(1), 1) = [n \in 1 .. few |-> f(n)] /\ Taken(t(3), 1) = [n \in 1 .. many |-> f(n)]
    BY <1>4 DEF Taken, LaidAt
  <2> HIDE DEF few, many, f
  <2> DEFINE s == [n \in 1 .. few |-> f(n)]
             z == [n \in 1 .. many |-> f(n)]
  <2>4. Len(s) = few /\ Len(z) = many
    BY <2>2
  <2>5. SubSeq(s, 1, few) = SubSeq(z, 1, few)
    <3>1. SubSeq(s, 1, few) = [n \in 1 .. few |-> f(n)]
      BY <2>2
    <3>2. SubSeq(z, 1, few) = [n \in 1 .. few |-> f(n)]
      BY <2>2
    <3> QED
      BY <3>1, <3>2
  <2> QED
    BY <2>1, <2>2, <2>3, <2>4, <2>5 DEF IsPrefix
<1> QED
  BY <1>6, <1>7 DEF agreed

\* Every run of the bench is one of the three kinds, and those that are over
\* came back as their kind does.
THEOREM BenchInvariant == ToolsSpec => []BenchInv
<1>1. ToolsInit => BenchInv
  <2> SUFFICES ASSUME ToolsInit PROVE BenchInv
    OBVIOUS
  <2>1. Idling /\ plan \in Plans \cup {<<>>}
    BY DEF ToolsInit, NoBench, BenchInit
  <2>2. transfers = <<>> /\ dpc = "off" /\ owed = FALSE /\ dMem = [n \in 0 .. ByteValues * RamPages - 1 |-> 0]
    BY <2>1 DEF Idling
  <2>3. BenchPhase
    BY <2>2 DEF BenchPhase, MemoryEnd
  <2>4. plan \in Seq(BenchRuns)
    <3>1. CASE plan = <<>>
      BY <3>1
    <3>2. CASE \E p \in Payloads : plan = MainPlan(p)
      BY <3>2 DEF MainPlan, BenchRuns, FIRST_COUNTER
    <3>3. CASE \E p \in Payloads, c \in {0, 1}, u \in {0, UNECHOED} : plan = <<on_hardware("tripleLoop", p, c, u)>>
      BY <3>3 DEF BenchRuns
    <3> QED
      BY <2>1, <3>1, <3>2, <3>3 DEF Plans
  <2>5. PlanKept
    BY <2>1, <2>2, <2>4 DEF PlanKept
  <2> QED
    BY <2>2, <2>3, <2>5 DEF BenchInv
<1>2. BenchInv /\ [ToolsNext]_toolVars => BenchInv'
  <2> SUFFICES ASSUME BenchInv, [ToolsNext]_toolVars PROVE BenchInv'
    OBVIOUS
  <2>1. BenchNext \/ UNCHANGED benchVars
    <3>1. CASE UNCHANGED toolVars
      BY <3>1 DEF toolVars
    <3>2. CASE ToolsNext
      BY <3>2 DEF ToolsNext, Answers
    <3> QED
      BY <3>1, <3>2
  <2>2. CASE UNCHANGED benchVars
    BY <2>2 DEF BenchInv, PlanKept, BenchPhase, RightPhase, LateCounter, HiddenEcho, HandshakeRight, PointersRight,
                StoredUpTo, Underway, Current, Run, benchVars, driverVars
  <2> QED
    BY <2>1, <2>2, BenchStep
<1> QED
  BY <1>1, <1>2, PTL DEF ToolsSpec

\* TransfersRight holds of driver_run.main and of every run a caller of
\* on_hardware asks for, whatever the payload.
THEOREM TransfersAreRight == ToolsSpec => []TransfersRight
<1>1. BenchInv => TransfersRight
  <2> SUFFICES ASSUME BenchInv PROVE TransfersRight
    OBVIOUS
  <2>1. ASSUME NEW n \in DOMAIN transfers
        PROVE  LET t == transfers[n]
                   right == t.run.counter = FIRST_COUNTER /\ (t.run.unit => t.run.unechoed # 0)
               IN  IF ~right THEN t.raised
                   ELSE /\ ~t.raised /\ t.handshakes = (Len(t.run.laid) + 2) \div TRIPLE
                        /\ \A k \in (IF t.run.entry = "byteLoop" THEN {1} ELSE {1, 2, 3}) : t.streams[k] = Taken(t, k)
    <3>1. Over(transfers[n])
      BY PlanIs
    <3>2. 1 .. 3 = {1, 2, 3}
      OBVIOUS
    <3> QED
      BY <3>1, <3>2 DEF Over, RightRun, Triples
  <2>2. Len(transfers) = 4 => agreed(transfers)
    BY WitnessesAgree
  <2>3. plan # <<>> /\ dpc # "off" /\ Waiting => owed \/ Stopped \/ Run.unit
    <3> SUFFICES ASSUME plan # <<>>, dpc # "off", Waiting, ~Run.unit PROVE FALSE
      OBVIOUS
    <3>1. Run \in BenchRuns
      BY DEF BenchInv, PlanKept, Run
    <3>2. RightRun(Run)
      BY <3>1, WrongRuns
    <3>3. RightPhase
      BY <3>2 DEF BenchInv, BenchPhase
    <3>4. dpc \in LoopLabels(Run) /\ Run.entry \in {"byteLoop", "tripleLoop"}
      BY <3>1, <3>3, RunSizes DEF RightPhase, HandshakeRight, RoomFor
    <3>5. dpc \in {"tripleLoop", "byteLoop"} /\ dY # dOut[0]
      BY <3>4 DEF Waiting, LoopLabels
    <3>6. dOut[0] = dY
      BY <3>1, <3>3, <3>5, RightPorts DEF RightPhase, PastEcho
    <3> QED
      BY <3>5, <3>6
  <2> QED
    BY <2>1, <2>2, <2>3 DEF TransfersRight
<1> QED
  BY <1>1, BenchInvariant, PTL

-----------------------------------------------------------------------------
(* The readers of a log *)

LineKinds == {"BLKEND", "BLKBAD", "SCANLEN", "TICK", "APU", "TOUR", "BLOCKS", "RESULT", "FAILED"}
LogLines == [is : LineKinds, n : Nat, a : Int \cup Sources, b : Nat]
LogBlocks == [source : Int \cup Sources, intact : BOOLEAN]
Endings == {"runs", "finished", "died", "refused"}
Truths == [log : Seq(LogLines), ended : Endings, judged : Seq(LogBlocks), ticks : Seq(Nat \X Nat),
          bursts : SUBSET Nat, misses : Nat]

\* Every block compared so far was intact.
Whole(t) == \A p \in Range(t.judged) : p.intact
SourcesIn(t) == {p.source : p \in Range(t.judged)}

\* What of a log is told whatever the tool: whether the run went to its end.
Ended(lg, st) ==
  /\ (\E ln \in Range(lg) : ln.is = "RESULT") <=> st = "finished"
  /\ \A ln \in Range(lg) : ln.is = "RESULT" => ln.n = Frames

\* The blocks compared, and at the end whether all of them were intact.
BlocksTold(lg, t, st) ==
  /\ (\E ln \in Range(lg) : ln.is = "BLOCKS") <=> st = "finished"
  /\ \A ln \in Range(lg) : ln.is = "BLOCKS" => ln.b \in Nat /\ (ln.b = 0 <=> Whole(t))
  /\ {ln.a : ln \in {l \in Range(lg) : l.is = "BLKEND"}} = SourcesIn(t)

\* The counters of the driver, frame by frame.
TicksTold(lg, t) ==
  /\ Len(t.ticks) <= Frames
  /\ {<<ln.n, ln.a, ln.b>> : ln \in {l \in Range(lg) : l.is = "TICK"}}
       = {<<f, t.ticks[f + 1][1], t.ticks[f + 1][2]>> : f \in 0 .. Len(t.ticks) - 1}

MissesTold(lg, t) == t.misses = 0 <=> \A ln \in Range(lg) : ln.is = "SCANLEN" => ~(ln.a > SCAN_BUDGET)

\* What longest_burst knows after the frames of a set.
Tracks(acc, B) ==
  /\ acc.best \in Nat /\ acc.run \in Nat /\ acc.previous \in Int
  /\ IF B = {} THEN acc.run = 0 /\ acc.previous = -2
     ELSE /\ acc.previous \in B /\ \A f \in B : f <= acc.previous
          /\ acc.run >= 1 /\ acc.run <= acc.best
          /\ acc.previous - acc.run + 1 .. acc.previous \subseteq B /\ acc.previous - acc.run \notin B
  /\ \E f \in Nat : f .. f + acc.best - 1 \subseteq B
  /\ \A f, k \in Nat : f .. f + k - 1 \subseteq B => k <= acc.best

\* The sounds heard in a log.
Listened(lg) == FoldLeft(Heard, Silence, lg)

Told(program, lg, t, st) ==
  /\ Ended(lg, st)
  /\ program \in {"audio", "tour"} => BlocksTold(lg, t, st)
  /\ program = "tour" => TicksTold(lg, t)
  /\ program = "validate" => MissesTold(lg, t) /\ Tracks(Listened(lg), t.bursts)

\* The emulator while it runs.
Running ==
  /\ Len(truth[image].ticks) = frame
  /\ truth[image].bursts \subseteq 0 .. frame - 1
  /\ tally.bad = 0 <=> Whole(truth[image])
  /\ code = -1

\* The exit code stands for what was read.
Concluded ==
  /\ which = "audio" /\ code \in {0, 1} =>
       code = IF verdict(read(truth[1].log), read(log)) = {} THEN 0 ELSE 1
  /\ which = "tour" => code = IF passed(log) THEN 0 ELSE 1
  /\ which = "validate" =>
       code = IF summarise(log).load /\ summarise(log).misses = 0 /\ summarise(log).frames = Frames THEN 0 ELSE 1

LogTypes ==
  /\ image \in {1, 2} /\ frame \in 0 .. Frames /\ pending \in LogBlocks
  /\ tally \in [ok : Nat, bad : Nat] /\ log \in Seq(LogLines) /\ state \in Endings
  /\ truth \in [{1, 2} -> Truths] /\ code \in {-1, 0, 1, 2}

LogsInv ==
  /\ LogTypes
  /\ image = 2 => TwoImages
  /\ image = 1 => truth[2] = Untold
  /\ code # 2 => Told(which, log, truth[image], state)
  /\ code # 2 /\ image = 2 => Told(which, truth[1].log, truth[1], truth[1].ended)
  /\ state = "runs" => Running
  /\ code # -1 => state # "runs" /\ (TwoImages => image = 2)
  /\ code = 2 => which = "audio"
  /\ code \in {0, 1} => truth[image].log = log /\ truth[image].ended = state /\ Concluded

\* A run has at least one frame.
LEMMA FramesPositive == Frames \in Nat \ {0}
<1>1. \A a, b \in Nat \ {0} : a * b \in Nat \ {0}
  OBVIOUS
<1> QED
  BY <1>1, RunBounds DEF Frames

\* The lines of two pieces of a log.
LEMMA RangeJoin ==
  ASSUME NEW E, NEW s \in Seq(E), NEW t \in Seq(E)
  PROVE  s \o t \in Seq(E) /\ Range(s \o t) = Range(s) \cup Range(t)
<1>1. s \o t \in Seq(E) /\ Len(s \o t) = Len(s) + Len(t) /\ Len(s) \in Nat /\ Len(t) \in Nat
  BY ConcatProperties
<1>2. /\ DOMAIN s = 1 .. Len(s) /\ DOMAIN t = 1 .. Len(t) /\ DOMAIN (s \o t) = 1 .. Len(s) + Len(t)
      /\ \A k \in 1 .. Len(s) : (s \o t)[k] = s[k]
      /\ \A k \in 1 .. Len(t) : (s \o t)[Len(s) + k] = t[k]
  BY <1>1
<1> DEFINE W == s \o t
<1> HIDE DEF W
<1>3. ASSUME NEW x \in Range(W) PROVE x \in Range(s) \cup Range(t)
  <2>1. PICK k \in 1 .. Len(s) + Len(t) : x = W[k]
    BY <1>2, <1>3 DEF Range, W
  <2>2. CASE k <= Len(s)
    BY <1>1, <1>2, <2>1, <2>2 DEF Range, W
  <2>3. CASE k > Len(s)
    <3>1. k - Len(s) \in 1 .. Len(t) /\ Len(s) + (k - Len(s)) = k
      BY <1>1, <2>3
    <3>2. x = t[k - Len(s)]
      BY <1>2, <2>1, <3>1 DEF W
    <3> QED
      BY <1>2, <3>1, <3>2 DEF Range
  <2> QED
    BY <1>1, <2>2, <2>3
<1>4. ASSUME NEW x \in Range(s) PROVE x \in Range(W)
  <2>1. PICK k \in 1 .. Len(s) : x = s[k]
    BY <1>2, <1>4 DEF Range
  <2>2. k \in 1 .. Len(s) + Len(t) /\ W[k] = x
    BY <1>1, <1>2, <2>1 DEF W
  <2> QED
    BY <1>2, <2>2 DEF Range, W
<1>5. ASSUME NEW x \in Range(t) PROVE x \in Range(W)
  <2>1. PICK k \in 1 .. Len(t) : x = t[k]
    BY <1>2, <1>5 DEF Range
  <2>2. Len(s) + k \in 1 .. Len(s) + Len(t) /\ W[Len(s) + k] = x
    BY <1>1, <1>2, <2>1 DEF W
  <2> QED
    BY <1>2, <2>2 DEF Range, W
<1> QED
  BY <1>1, <1>3, <1>4, <1>5 DEF W

\* The lines of a log of one line.
LEMMA RangeOne ==
  ASSUME NEW x PROVE Range(<<x>>) = {x}
BY DEF Range

\* An empty log has no line.
LEMMA RangeNone == Range(<<>>) = {}
BY DEF Range

-----------------------------------------------------------------------------
(* The longest burst *)

\* A frame after all the others, taken in.
LEMMA TracksOn ==
  ASSUME NEW acc, NEW f \in Nat, NEW B \in SUBSET (0 .. f - 1), Tracks(acc, B)
  PROVE  Tracks(Burst(acc, f), B \cup {f})
<1> DEFINE run == IF acc.previous + 1 = f THEN acc.run + 1 ELSE 1
           best == IF acc.best >= run THEN acc.best ELSE run
<1>1. acc.best \in Nat /\ acc.run \in Nat /\ acc.previous \in Int /\ run \in Nat /\ run >= 1
  BY DEF Tracks
<1>2. Burst(acc, f) = [best |-> best, run |-> run, previous |-> f]
  <2>1. Max({acc.best, run}) = best
    <3>1. {acc.best, run} \in SUBSET Int /\ best \in {acc.best, run} /\ \A y \in {acc.best, run} : y <= best
      BY <1>1
    <3> HIDE DEF best, run
    <3> QED
      BY <3>1, MaxIs
  <2> QED
    BY <2>1 DEF Burst
<1>3. best \in Nat /\ best >= run /\ best >= acc.best
  BY <1>1
<1>4. f - run + 1 .. f \subseteq B \cup {f} /\ f - run \notin B \cup {f}
  <2>1. CASE acc.previous + 1 = f
    <3>1. B # {}
      BY <2>1 DEF Tracks
    <3>2. acc.previous - acc.run + 1 .. acc.previous \subseteq B /\ acc.previous - acc.run \notin B
      BY <3>1 DEF Tracks
    <3> QED
      BY <1>1, <2>1, <3>2
  <2>2. CASE acc.previous + 1 # f
    <3>1. f - 1 \notin B
      BY <1>1, <2>2 DEF Tracks
    <3> QED
      BY <2>2, <3>1
  <2> QED
    BY <2>1, <2>2
<1>5. \E g \in Nat : g .. g + best - 1 \subseteq B \cup {f}
  <2>1. CASE best = acc.best
    BY <2>1 DEF Tracks
  <2>2. CASE best = run
    <3>1. f - run + 1 \in B \cup {f}
      BY <1>1, <1>4
    <3>2. f - run + 1 \in Nat /\ (f - run + 1) + best - 1 = f
      BY <1>1, <2>2, <3>1
    <3> QED
      BY <1>4, <3>2
  <2> QED
    BY <2>1, <2>2
<1>6. ASSUME NEW g \in Nat, NEW k \in Nat, g .. g + k - 1 \subseteq B \cup {f} PROVE k <= best
  <2>1. CASE k = 0
    BY <1>3, <2>1
  <2>2. CASE k # 0 /\ f \notin g .. g + k - 1
    <3>1. g .. g + k - 1 \subseteq B
      BY <1>6, <2>2
    <3>2. k <= acc.best
      BY <3>1 DEF Tracks
    <3> QED
      BY <1>1, <1>3, <3>2
  <2>3. CASE k # 0 /\ f \in g .. g + k - 1
    <3>1. g + k - 1 \in g .. g + k - 1
      BY <2>3
    <3>2. g + k - 1 \in B \cup {f}
      BY <1>6, <3>1
    <3>3. g + k - 1 = f
      BY <2>3, <3>2
    <3>4. k <= run
      <4> SUFFICES ASSUME k > run PROVE FALSE
        BY <1>1
      <4>1. f - run \in g .. g + k - 1
        BY <1>1, <3>3
      <4> QED
        BY <1>4, <1>6, <4>1
    <3> QED
      BY <1>1, <1>3, <3>4
  <2> QED
    BY <2>1, <2>2, <2>3
<1>7. \A g \in B \cup {f} : g <= f
  OBVIOUS
<1> HIDE DEF run, best
<1>8. f - run + 1 .. f = f - run + 1 .. f /\ B \cup {f} # {} /\ f \in B \cup {f} /\ run <= best
  BY <1>1, <1>3
<1>9. /\ Burst(acc, f).best = best /\ Burst(acc, f).run = run /\ Burst(acc, f).previous = f
  BY <1>2
<1> DEFINE A == Burst(acc, f)
           C == B \cup {f}
<1>10. /\ A.best \in Nat /\ A.run \in Nat /\ A.previous \in Int
       /\ C # {} /\ A.previous \in C /\ \A g \in C : g <= A.previous
       /\ A.run >= 1 /\ A.run <= A.best
  <2> HIDE DEF A
  <2>1. A.best = best /\ A.run = run /\ A.previous = f
    BY <1>9 DEF A
  <2> QED
    BY <1>1, <1>3, <1>7, <1>8, <2>1
<1>11. A.previous - A.run + 1 .. A.previous \subseteq C /\ A.previous - A.run \notin C
  <2> HIDE DEF A
  <2>1. A.run = run /\ A.previous = f
    BY <1>9 DEF A
  <2> QED
    BY <1>4, <2>1
<1>12. /\ \E g \in Nat : g .. g + A.best - 1 \subseteq C
       /\ \A g, k \in Nat : g .. g + k - 1 \subseteq C => k <= A.best
  <2> HIDE DEF A
  <2>1. A.best = best
    BY <1>9 DEF A
  <2> QED
    BY <1>5, <1>6, <2>1
<1>13. Tracks(A, C)
  <2> HIDE DEF A, C
  <2> QED
    BY <1>10, <1>11, <1>12 DEF Tracks
<1> QED
  BY <1>13

\* A run of frames is an interval.
LEMMA RunIsInterval ==
  ASSUME NEW B \in SUBSET Nat, NEW r \in Runs(B), NEW top \in Nat, \A f \in B : f <= top, r # {}
  PROVE  \E a, b \in Nat : a <= b /\ r = a .. b
<1>1. r \in SUBSET Nat /\ \A f \in r : f <= top /\ (f = Min(r) \/ f - 1 \in r)
  BY DEF Runs
<1>2. PICK a \in r : \A f \in r : a <= f
  BY <1>1, LeastNatural
<1>3. Min(r) = a
  BY <1>1, <1>2, MinIs
<1>4. r \in SUBSET (1 .. top + 1) \/ a = 0
  BY <1>1, <1>2
<1> DEFINE T == {top - f : f \in r}
<1>5. T \in SUBSET Nat /\ T # {}
  BY <1>1
<1>6. PICK t \in T : \A u \in T : t <= u
  <2> HIDE DEF T
  <2> QED
    BY <1>5, LeastNatural
<1>7. PICK b \in r : t = top - b
  BY <1>6
<1>8. ASSUME NEW f \in r PROVE f <= b
  <2>1. top - f \in T
    OBVIOUS
  <2>2. t <= top - f
    BY <1>6, <2>1
  <2> QED
    BY <1>1, <1>7, <2>2
<1>9. ASSUME NEW g \in a .. b, g \notin r PROVE FALSE
  <2> DEFINE U == {f \in r : f > g}
  <2>0. b \in r /\ b \in Nat /\ a \in Nat /\ g \in Int /\ g >= a /\ g <= b /\ g # b
    BY <1>1, <1>9
  <2>1. U \in SUBSET Nat /\ b \in U
    <3>1. b > g
      BY <2>0
    <3> QED
      BY <1>1, <2>0, <3>1
  <2>2. PICK u \in U : \A v \in U : u <= v
    <3> HIDE DEF U
    <3> QED
      BY <2>1, LeastNatural
  <2>3. u \in r /\ u > g /\ u \in Nat /\ u # a
    BY <1>1, <2>2
  <2>4. u - 1 \in r
    BY <1>1, <1>3, <2>3
  <2>5. u - 1 # g /\ u - 1 > g
    BY <1>1, <1>9, <2>3, <2>4
  <2>6. u - 1 \in U
    BY <2>4, <2>5
  <2> QED
    BY <2>2, <2>3, <2>6
<1>10. r = a .. b
  <2>1. a \in Nat /\ b \in Nat
    BY <1>1
  <2>2. \A f \in r : f \in Int /\ a <= f /\ f <= b
    BY <1>1, <1>2, <1>8
  <2>3. r \subseteq a .. b
    BY <2>1, <2>2
  <2>4. a .. b \subseteq r
    BY <1>9
  <2> QED
    BY <2>3, <2>4
<1> QED
  BY <1>1, <1>2, <1>8, <1>10

\* The best of a fold that keeps track is the longest run of frames.
LEMMA TracksMax ==
  ASSUME NEW B \in SUBSET Nat, NEW acc, Tracks(acc, B)
  PROVE  acc.best = Max({Cardinality(r) : r \in Runs(B)} \cup {0})
<1> DEFINE S == {Cardinality(r) : r \in Runs(B)} \cup {0}
<1>0. acc.best \in Nat
  BY DEF Tracks
<1>1. ASSUME NEW r \in Runs(B) PROVE Cardinality(r) \in Nat /\ Cardinality(r) <= acc.best
  <2>1. CASE r = {}
    BY <1>0, <2>1, FS_EmptySet
  <2>2. CASE r # {}
    <3>1. B # {} /\ r \in SUBSET B
      BY <2>2 DEF Runs
    <3>2. acc.previous \in B /\ \A f \in B : f <= acc.previous
      BY <3>1 DEF Tracks
    <3>3. acc.previous \in Nat
      BY <3>2
    <3>4. PICK a, b \in Nat : a <= b /\ r = a .. b
      BY <2>2, <3>2, <3>3, RunIsInterval
    <3>5. Cardinality(r) = b - a + 1
      BY <3>4, FS_Interval
    <3>6. a + (b - a + 1) - 1 = b /\ b - a + 1 \in Nat
      BY <3>4
    <3>7. a .. a + (b - a + 1) - 1 \subseteq B
      BY <3>1, <3>4, <3>6
    <3>8. b - a + 1 <= acc.best
      BY <3>6, <3>7 DEF Tracks
    <3> QED
      BY <3>5, <3>6, <3>8
  <2> QED
    BY <2>1, <2>2
<1>2. acc.best \in S
  <2>1. PICK a \in Nat : a .. a + acc.best - 1 \subseteq B
    BY DEF Tracks
  <2> DEFINE r == a .. a + acc.best - 1
  <2>2. CASE acc.best = 0
    BY <2>2
  <2>3. CASE acc.best # 0
    <3>1. a \in r /\ r \in SUBSET Nat /\ \A f \in r : a <= f
      BY <1>0, <2>3
    <3>2. Min(r) = a
      <4> HIDE DEF r
      <4> QED
        BY <3>1, MinIs
    <3>3. ASSUME NEW f \in r, f # a PROVE f - 1 \in r
      BY <1>0, <3>3
    <3>4. r \in Runs(B)
      <4> HIDE DEF r
      <4>1. r \in SUBSET B
        BY <2>1 DEF r
      <4> QED
        BY <3>2, <3>3, <4>1 DEF Runs
    <3>5. Cardinality(r) = acc.best
      <4>1. a + acc.best - 1 \in Int /\ a \in Int /\ a <= a + acc.best - 1
        BY <1>0, <2>3
      <4>2. Cardinality(a .. (a + acc.best - 1)) = (a + acc.best - 1) - a + 1
        BY <4>1, FS_Interval
      <4> QED
        BY <1>0, <4>2
    <3> HIDE DEF r
    <3> QED
      BY <3>4, <3>5
  <2> QED
    BY <2>2, <2>3
<1>3. S \in SUBSET Int /\ \A y \in S : y <= acc.best
  BY <1>0, <1>1
<1> HIDE DEF S
<1>4. Max(S) = acc.best
  BY <1>2, <1>3, MaxIs
<1> QED
  BY <1>4 DEF S

-----------------------------------------------------------------------------
(* Listening line by line *)

Bursts == [best : Nat, run : Nat, previous : Int]

\* What has been heard stays what longest_burst keeps.
LEMMA HeardTyped ==
  ASSUME NEW acc \in Bursts, NEW ln \in LogLines
  PROVE  Heard(acc, ln) \in Bursts
<1>1. ln.n \in Nat /\ acc.best \in Nat /\ acc.run \in Nat
  BY DEF LogLines, Bursts
<1> DEFINE run == IF acc.previous + 1 = ln.n THEN acc.run + 1 ELSE 1
<1>2. run \in Nat
  BY <1>1
<1> HIDE DEF run
<1>3. Max({acc.best, run}) \in Nat
  <2>1. CASE acc.best >= run
    <3>1. {acc.best, run} \in SUBSET Int /\ acc.best \in {acc.best, run} /\ \A y \in {acc.best, run} : y <= acc.best
      BY <1>1, <1>2, <2>1
    <3>2. Max({acc.best, run}) = acc.best
      BY <3>1, MaxIs
    <3> QED
      BY <1>1, <3>2
  <2>2. CASE acc.best < run
    <3>1. {acc.best, run} \in SUBSET Int /\ run \in {acc.best, run} /\ \A y \in {acc.best, run} : y <= run
      BY <1>1, <1>2, <2>2
    <3>2. Max({acc.best, run}) = run
      BY <3>1, MaxIs
    <3> QED
      BY <1>2, <3>2
  <2> QED
    BY <1>1, <1>2, <2>1, <2>2
<1>4. Burst(acc, ln.n) = [best |-> Max({acc.best, run}), run |-> run, previous |-> ln.n]
  BY DEF Burst, run
<1>5. Burst(acc, ln.n) \in Bursts
  BY <1>1, <1>2, <1>3, <1>4 DEF Bursts
<1> QED
  BY <1>5 DEF Heard

\* What has been heard after each line.
LEMMA HeardFold ==
  ASSUME NEW lg \in Seq(LogLines)
  PROVE  \E c \in [0 .. Len(lg) -> Bursts] :
           /\ c[0] = Silence
           /\ \A k \in 1 .. Len(lg) : c[k] = Heard(c[k - 1], lg[k])
           /\ Listened(lg) = c[Len(lg)]
<1> DEFINE n == Len(lg)
           H == [k \in 1 .. n |-> [d \in Bursts |-> Heard(d, lg[k])]]
<1>1. n \in Nat /\ DOMAIN lg = 1 .. n /\ \A k \in 1 .. n : lg[k] \in LogLines
  OBVIOUS
<1>2. Silence \in Bursts
  BY DEF Silence, Bursts
<1>3. \A d \in Bursts : \A k \in 1 .. n : Heard(d, lg[k]) \in Bursts
  BY <1>1, HeardTyped
<1>4. H \in [1 .. n -> [Bursts -> Bursts]]
  BY <1>3
<1>5. \A k \in 1 .. n, d \in Bursts : H[k][d] = Heard(d, lg[k])
  OBVIOUS
<1> DEFINE Next(r) == [s \in SUBSET (1 .. n) |-> IF s = {} THEN Silence ELSE Heard(r[s \ {Max(s)}], lg[Max(s)])]
           iter == CHOOSE r : r = Next(r)
<1>6. Listened(lg) = iter[1 .. n]
  <2>1. Listened(lg) = MapThenFoldSet(LAMBDA x, y : Heard(y, x), Silence, LAMBDA i : lg[i], LAMBDA s : Max(s), 1 .. n)
    BY <1>1 DEF FoldLeft, Listened
  <2> QED
    BY <2>1 DEF MapThenFoldSet
<1>7. iter = Next(iter)
  <2>1. PICK g \in [SUBSET (1 .. n) -> Bursts] : Folds(g, n, Silence, H)
    <3> HIDE DEF H
    <3> QED
      BY <1>1, <1>2, <1>4, FoldExists
  <2>2. ASSUME NEW s \in SUBSET (1 .. n), s # {}
        PROVE  H[Max(s)][g[s \ {Max(s)}]] = Heard(g[s \ {Max(s)}], lg[Max(s)])
    <3>1. Max(s) \in 1 .. n
      BY <1>1, <2>2, MaxWithin
    <3>2. s \ {Max(s)} \in SUBSET (1 .. n)
      OBVIOUS
    <3>3. g[s \ {Max(s)}] \in Bursts
      BY <3>2
    <3> QED
      BY <1>5, <3>1, <3>3
  <2>3. g = Next(g)
    <3> HIDE DEF H
    <3>1. g = [s \in SUBSET (1 .. n) |-> IF s = {} THEN Silence ELSE H[Max(s)][g[s \ {Max(s)}]]]
      BY <2>1 DEF Folds
    <3> QED
      BY <2>2, <3>1
  <2> HIDE DEF Next
  <2> QED
    BY <2>3
<1> DEFINE c == [k \in 0 .. n |-> iter[1 .. k]]
<1>8. c[0] = Silence
  <2>1. 1 .. 0 = {} /\ {} \in SUBSET (1 .. n) /\ 0 \in 0 .. n
    BY <1>1
  <2>2. Next(iter)[{}] = Silence
    BY <2>1
  <2>3. c[0] = iter[1 .. 0]
    BY <2>1
  <2> HIDE DEF Next, iter, c
  <2> QED
    BY <1>7, <2>1, <2>2, <2>3, Zenon
<1>9. ASSUME NEW k \in 1 .. n PROVE c[k] = Heard(c[k - 1], lg[k])
  <2>1. Max(1 .. k) = k
    <3>1. 1 .. k \in SUBSET Int /\ k \in 1 .. k /\ \A y \in 1 .. k : y <= k
      OBVIOUS
    <3> QED
      BY <3>1, MaxIs
  <2>2. (1 .. k) \ {k} = 1 .. k - 1 /\ 1 .. k # {} /\ 1 .. k \in SUBSET (1 .. n) /\ k \in 0 .. n /\ k - 1 \in 0 .. n
    <3> HIDE DEF n, iter, Next, c
    <3>1. n \in Nat /\ k \in Nat /\ 1 <= k /\ k <= n
      BY <1>1
    <3>2. k \in 0 .. n /\ k - 1 \in 0 .. n /\ 1 .. k \in SUBSET (1 .. n) /\ k \in 1 .. k
      BY <3>1
    <3>3. (1 .. k) \ {k} = 1 .. k - 1
      BY <3>1
    <3> QED
      BY <3>2, <3>3
  <2>3. Next(iter)[1 .. k] = Heard(iter[1 .. k - 1], lg[k])
    <3> HIDE DEF iter
    <3> QED
      BY <2>1, <2>2
  <2> HIDE DEF Next, iter
  <2> QED
    BY <1>7, <2>2, <2>3
<1>10. Listened(lg) = c[n]
  <2>1. n \in 0 .. n
    BY <1>1
  <2> QED
    BY <1>6, <2>1
<1> HIDE DEF c, H, Next, iter
<1>11. \A k \in 0 .. n : c[k] \in Bursts
  <2> DEFINE S == {k \in 0 .. n : c[k] \in Bursts}
  <2>1. 0 \in S
    BY <1>1, <1>2, <1>8
  <2>2. ASSUME NEW k \in 0 .. n - 1, k \in S PROVE k + 1 \in S
    <3>1. k + 1 \in 1 .. n /\ (k + 1) - 1 = k
      BY <1>1
    <3>2. c[k + 1] = Heard(c[k], lg[k + 1])
      BY <1>9, <3>1
    <3> QED
      BY <1>1, <1>3, <2>2, <3>1, <3>2
  <2>3. \A k \in 0 .. n : k \in S
    <3> HIDE DEF S, n
    <3> QED
      BY <1>1, <2>1, <2>2, UpTo
  <2> QED
    BY <2>3
<1>12. c = [k \in 0 .. n |-> c[k]]
  BY DEF c
<1>13. c \in [0 .. n -> Bursts]
  BY <1>11, <1>12
<1> QED
  BY <1>8, <1>9, <1>10, <1>13

\* Nothing is heard in an empty log.
LEMMA HeardNothing == Listened(<<>>) = Silence
<1>1. <<>> \in Seq(LogLines) /\ Len(<<>>) = 0
  OBVIOUS
<1> QED
  BY <1>1, HeardFold

\* One more line.
LEMMA HeardAppend ==
  ASSUME NEW lg \in Seq(LogLines), NEW ln \in LogLines
  PROVE  Listened(Append(lg, ln)) = Heard(Listened(lg), ln)
<1> DEFINE W == Append(lg, ln)
           n == Len(lg)
<1>1. W \in Seq(LogLines) /\ n \in Nat /\ Len(W) = n + 1 /\ W[n + 1] = ln /\ \A k \in 1 .. n : W[k] = lg[k]
  OBVIOUS
<1>2. PICK c \in [0 .. n -> Bursts] :
        c[0] = Silence /\ (\A k \in 1 .. n : c[k] = Heard(c[k - 1], lg[k])) /\ Listened(lg) = c[n]
  BY HeardFold
<1> HIDE DEF W
<1>3. PICK d \in [0 .. n + 1 -> Bursts] :
        d[0] = Silence /\ (\A k \in 1 .. n + 1 : d[k] = Heard(d[k - 1], W[k])) /\ Listened(W) = d[n + 1]
  <2>1. \E d \in [0 .. Len(W) -> Bursts] :
           /\ d[0] = Silence
           /\ \A k \in 1 .. Len(W) : d[k] = Heard(d[k - 1], W[k])
           /\ Listened(W) = d[Len(W)]
    BY <1>1, HeardFold
  <2> HIDE DEF n
  <2> QED
    BY <1>1, <2>1
<1> DEFINE S == {k \in 0 .. n : c[k] = d[k]}
<1> HIDE DEF n
<1>4. 0 \in S
  BY <1>1, <1>2, <1>3
<1>5. ASSUME NEW k \in 0 .. n - 1, k \in S PROVE k + 1 \in S
  <2>1. k + 1 \in 1 .. n /\ k + 1 \in 1 .. n + 1 /\ (k + 1) - 1 = k
    BY <1>1
  <2>2. c[k + 1] = Heard(c[k], lg[k + 1])
    BY <1>2, <2>1
  <2>3. d[k + 1] = Heard(d[k], lg[k + 1])
    BY <1>1, <1>3, <2>1
  <2> QED
    BY <1>1, <1>5, <2>1, <2>2, <2>3
<1>6. \A k \in 0 .. n : k \in S
  <2> HIDE DEF S
  <2> QED
    BY <1>1, <1>4, <1>5, UpTo
<1>7. c[n] = d[n]
  BY <1>1, <1>6
<1>8. d[n + 1] = Heard(d[n], ln)
  <2>1. n + 1 \in 1 .. n + 1 /\ (n + 1) - 1 = n
    BY <1>1
  <2> QED
    BY <1>1, <1>3, <2>1
<1> QED
  BY <1>2, <1>3, <1>7, <1>8 DEF W

-----------------------------------------------------------------------------
(* A few more lines *)

\* The sources named by blocks that were compared, in some lines.
Named(L) == {ln.a : ln \in {l \in L : l.is = "BLKEND"}}
Ticked(L) == {<<ln.n, ln.a, ln.b>> : ln \in {l \in L : l.is = "TICK"}}

\* Lines that are no RESULT leave the end of the log untold.
LEMMA EndedOn ==
  ASSUME NEW lg \in Seq(LogLines), NEW more \in Seq(LogLines), NEW st \in {"runs", "died", "refused"},
         Ended(lg, "runs"), \A ln \in Range(more) : ln.is # "RESULT"
  PROVE  Ended(lg \o more, st)
<1>1. Range(lg \o more) = Range(lg) \cup Range(more)
  BY RangeJoin
<1>2. \A ln \in Range(lg) : ln.is # "RESULT"
  BY DEF Ended
<1> QED
  BY <1>1, <1>2 DEF Ended

\* Lines that are no BLOCKS add the blocks they name.
LEMMA BlocksOn ==
  ASSUME NEW lg \in Seq(LogLines), NEW more \in Seq(LogLines), NEW st \in {"runs", "died", "refused"}, NEW t, NEW u,
         BlocksTold(lg, t, "runs"), \A ln \in Range(more) : ln.is # "BLOCKS",
         SourcesIn(u) = SourcesIn(t) \cup Named(Range(more))
  PROVE  BlocksTold(lg \o more, u, st)
<1>1. Range(lg \o more) = Range(lg) \cup Range(more)
  BY RangeJoin
<1>2. \A ln \in Range(lg) : ln.is # "BLOCKS"
  BY DEF BlocksTold
<1>3. Named(Range(lg)) = SourcesIn(t)
  BY DEF BlocksTold, Named
<1>4. \A L, M : Named(L \cup M) = Named(L) \cup Named(M)
  BY DEF Named
<1>5. Named(Range(lg \o more)) = SourcesIn(u)
  BY <1>1, <1>3, <1>4
<1> QED
  BY <1>1, <1>2, <1>5 DEF BlocksTold, Named

\* A frame more: its two counters are written, and nothing else of the kind.
LEMMA TicksOn ==
  ASSUME NEW lg \in Seq(LogLines), NEW more \in Seq(LogLines), NEW t, NEW u, NEW main \in Nat, NEW nmi \in Nat,
         t.ticks \in Seq(Nat \X Nat), u.ticks = Append(t.ticks, <<main, nmi>>), Len(t.ticks) < Frames,
         TicksTold(lg, t), Ticked(Range(more)) = {<<Len(t.ticks), main, nmi>>}
  PROVE  TicksTold(lg \o more, u)
<1> DEFINE n == Len(t.ticks)
           old == {<<f, t.ticks[f + 1][1], t.ticks[f + 1][2]>> : f \in 0 .. n - 1}
           new == {<<f, u.ticks[f + 1][1], u.ticks[f + 1][2]>> : f \in 0 .. Len(u.ticks) - 1}
<1>1. n \in Nat /\ Len(u.ticks) = n + 1 /\ u.ticks[n + 1] = <<main, nmi>>
      /\ \A f \in 0 .. n - 1 : u.ticks[f + 1] = t.ticks[f + 1]
  <2>1. \A f \in 0 .. n - 1 : f + 1 \in 1 .. n
    OBVIOUS
  <2> QED
    BY <2>1
<1>2. new = old \cup {<<n, main, nmi>>}
  <2>1. \A f \in 0 .. Len(u.ticks) - 1 : f \in 0 .. n - 1 \/ f = n
    BY <1>1
  <2>2. \A f \in 0 .. n - 1 : f \in 0 .. Len(u.ticks) - 1
    BY <1>1
  <2>3. n \in 0 .. Len(u.ticks) - 1
    BY <1>1
  <2>4. u.ticks[n + 1][1] = main /\ u.ticks[n + 1][2] = nmi
    BY <1>1
  <2> HIDE DEF n
  <2>5. ASSUME NEW x \in new PROVE x \in old \cup {<<n, main, nmi>>}
    <3>1. PICK f \in 0 .. Len(u.ticks) - 1 : x = <<f, u.ticks[f + 1][1], u.ticks[f + 1][2]>>
      OBVIOUS
    <3>2. CASE f = n
      BY <2>4, <3>1, <3>2
    <3>3. CASE f \in 0 .. n - 1
      <4>1. x = <<f, t.ticks[f + 1][1], t.ticks[f + 1][2]>>
        BY <1>1, <3>1, <3>3
      <4> QED
        BY <3>3, <4>1
    <3> QED
      BY <2>1, <3>2, <3>3
  <2>6. ASSUME NEW x \in old PROVE x \in new
    <3>1. PICK f \in 0 .. n - 1 : x = <<f, t.ticks[f + 1][1], t.ticks[f + 1][2]>>
      OBVIOUS
    <3>2. x = <<f, u.ticks[f + 1][1], u.ticks[f + 1][2]>> /\ f \in 0 .. Len(u.ticks) - 1
      BY <1>1, <2>2, <3>1
    <3> QED
      BY <3>2
  <2>7. <<n, main, nmi>> \in new
    BY <2>3, <2>4
  <2> HIDE DEF old, new
  <2> QED
    BY <2>5, <2>6, <2>7
<1>3. Range(lg \o more) = Range(lg) \cup Range(more)
  BY RangeJoin
<1>4. \A L, M : Ticked(L \cup M) = Ticked(L) \cup Ticked(M)
  BY DEF Ticked
<1>5. Ticked(Range(lg)) = old
  BY DEF TicksTold, Ticked
<1> HIDE DEF old
<1>6. Ticked(Range(lg \o more)) = new
  <2> HIDE DEF new
  <2> QED
    BY <1>2, <1>3, <1>4, <1>5
<1>7. Len(u.ticks) <= Frames
  BY <1>1, FramesPositive
<1> QED
  BY <1>6, <1>7 DEF TicksTold, Ticked

\* Lines that tell of no frame leave the frames as they were told.
LEMMA TicksKept ==
  ASSUME NEW lg \in Seq(LogLines), NEW more \in Seq(LogLines), NEW t, NEW u,
         u.ticks = t.ticks, TicksTold(lg, t), \A ln \in Range(more) : ln.is # "TICK"
  PROVE  TicksTold(lg \o more, u)
<1>1. Range(lg \o more) = Range(lg) \cup Range(more)
  BY RangeJoin
<1>2. {l \in Range(lg \o more) : l.is = "TICK"} = {l \in Range(lg) : l.is = "TICK"}
  BY <1>1
<1> QED
  BY <1>2 DEF TicksTold

\* More lines, with the scans they tell of.
LEMMA MissesOn ==
  ASSUME NEW lg \in Seq(LogLines), NEW more \in Seq(LogLines), NEW t, NEW u,
         MissesTold(lg, t),
         u.misses = 0 <=> t.misses = 0 /\ \A ln \in Range(more) : ln.is = "SCANLEN" => ~(ln.a > SCAN_BUDGET)
  PROVE  MissesTold(lg \o more, u)
<1>1. Range(lg \o more) = Range(lg) \cup Range(more)
  BY RangeJoin
<1> QED
  BY <1>1 DEF MissesTold

-----------------------------------------------------------------------------
(* A block compared *)

\* verify_pending names the block that was pending, and no other.
LEMMA PendingIs ==
  ASSUME NEW p \in LogBlocks, NEW tl \in [ok : Nat, bad : Nat]
  PROVE  /\ verify_pending(p, tl) \in Seq(LogLines)
         /\ \A ln \in Range(verify_pending(p, tl)) : ln.is \in {"BLKEND", "BLKBAD"}
         /\ Named(Range(verify_pending(p, tl))) = {q.source : q \in Range(Judged(p))}
<1>1. CASE p = NoBlock
  <2>1. verify_pending(p, tl) = <<>> /\ Judged(p) = <<>>
    BY <1>1 DEF verify_pending, Judged
  <2> QED
    BY <2>1, RangeNone DEF Named
<1>2. CASE p # NoBlock
  <2> DEFINE end == Line("BLKEND", 1, p.source, 0)
             bad == Line("BLKBAD", 0, p.source, 0)
  <2>0. end \in LogLines /\ bad \in LogLines /\ end.is = "BLKEND" /\ end.a = p.source /\ bad.is = "BLKBAD"
    BY DEF Line, LogLines, LineKinds, LogBlocks
  <2>1. Judged(p) = <<p>>
    BY <1>2 DEF Judged
  <2>2. Range(Judged(p)) = {p}
    BY <2>1, RangeOne
  <2>3. verify_pending(p, tl) = <<end>> \o <<>> \/ verify_pending(p, tl) = <<end>> \o <<bad>>
    BY <1>2 DEF verify_pending
  <2> HIDE DEF end, bad
  <2>4. <<end>> \in Seq(LogLines) /\ <<bad>> \in Seq(LogLines) /\ <<>> \in Seq(LogLines)
    BY <2>0
  <2>5. verify_pending(p, tl) \in Seq(LogLines)
        /\ Range(verify_pending(p, tl)) \in {{end}, {end, bad}}
    <3>1. <<end>> \o <<>> \in Seq(LogLines) /\ Range(<<end>> \o <<>>) = Range(<<end>>) \cup Range(<<>>)
      BY <2>4, RangeJoin
    <3>2. <<end>> \o <<bad>> \in Seq(LogLines) /\ Range(<<end>> \o <<bad>>) = Range(<<end>>) \cup Range(<<bad>>)
      BY <2>4, RangeJoin
    <3>3. Range(<<end>>) = {end} /\ Range(<<bad>>) = {bad}
      BY RangeOne
    <3>4. CASE verify_pending(p, tl) = <<end>> \o <<>>
      BY <3>1, <3>3, <3>4, RangeNone, Zenon
    <3>5. CASE verify_pending(p, tl) = <<end>> \o <<bad>>
      <4>1. {end} \cup {bad} = {end, bad}
        OBVIOUS
      <4> QED
        BY <3>2, <3>3, <3>5, <4>1, Zenon
    <3> QED
      BY <2>3, <3>4, <3>5
  <2>6. Named({end}) = {p.source} /\ Named({end, bad}) = {p.source}
    BY <2>0 DEF Named
  <2> QED
    BY <2>0, <2>2, <2>5, <2>6
<1> QED
  BY <1>1, <1>2

\* The tally has a bad block exactly when a bad block was judged.
LEMMA TalliedIs ==
  ASSUME NEW p \in LogBlocks, NEW tl \in [ok : Nat, bad : Nat]
  PROVE  /\ Tallied(p, tl) \in [ok : Nat, bad : Nat]
         /\ Tallied(p, tl).bad = 0 <=> tl.bad = 0 /\ p.intact
<1>1. CASE p = NoBlock
  <2>1. Tallied(p, tl) = tl /\ p.intact
    BY <1>1 DEF Tallied, NoBlock
  <2> QED
    BY <2>1
<1>2. CASE p # NoBlock /\ p.intact
  BY <1>2 DEF Tallied
<1>3. CASE p # NoBlock /\ ~p.intact
  BY <1>3 DEF Tallied
<1> QED
  BY <1>1, <1>2, <1>3

\* It joins those that were compared.
LEMMA JudgedOn ==
  ASSUME NEW p \in LogBlocks, NEW t \in Truths, NEW u, u.judged = t.judged \o Judged(p)
  PROVE  /\ u.judged \in Seq(LogBlocks)
         /\ Whole(u) <=> Whole(t) /\ p.intact
         /\ SourcesIn(u) = SourcesIn(t) \cup {q.source : q \in Range(Judged(p))}
<1>1. t.judged \in Seq(LogBlocks) /\ Judged(p) \in Seq(LogBlocks)
  BY DEF Truths, Judged
<1>2. u.judged \in Seq(LogBlocks) /\ Range(u.judged) = Range(t.judged) \cup Range(Judged(p))
  BY <1>1, RangeJoin
<1>3. p.intact <=> \A q \in Range(Judged(p)) : q.intact
  <2>1. CASE p = NoBlock
    <3>1. Judged(p) = <<>> /\ p.intact
      BY <2>1 DEF Judged, NoBlock
    <3> QED
      BY <3>1, RangeNone
  <2>2. CASE p # NoBlock
    <3>1. Range(Judged(p)) = {p}
      BY <2>2, RangeOne DEF Judged
    <3> QED
      BY <3>1, Zenon
  <2> QED
    BY <2>1, <2>2
<1>4. Whole(u) <=> Whole(t) /\ p.intact
  BY <1>2, <1>3, Zenon DEF Whole
<1>5. SourcesIn(u) = SourcesIn(t) \cup {q.source : q \in Range(Judged(p))}
  BY <1>2 DEF SourcesIn
<1> QED
  BY <1>2, <1>4, <1>5

-----------------------------------------------------------------------------
(* The invariant, step by step *)

\* Which tool asks for which lines.
LEMMA AsksAre ==
  ASSUME which \in LogTools
  PROVE  /\ Verified <=> which \in {"audio", "tour"}
         /\ "SFTICK" \in Asks <=> which = "tour"
         /\ "SFAPU" \in Asks <=> which = "validate"
         /\ "SFSCANLEN" \in Asks <=> which = "validate"
         /\ TwoImages <=> which \in {"audio", "stages"}
<1>1. CASE which = "audio"
  BY <1>1 DEF Verified, Asks, AudioAsks, TwoImages
<1>2. CASE which = "tour"
  BY <1>2 DEF Verified, Asks, TourAsks, TwoImages
<1>3. CASE which = "validate"
  BY <1>3 DEF Verified, Asks, ValidateAsks, TwoImages
<1>4. CASE which = "stages"
  BY <1>4 DEF Verified, Asks, StageAsks, TwoImages
<1> QED
  BY <1>1, <1>2, <1>3, <1>4 DEF LogTools

\* Nothing has happened and an empty log tells it.
LEMMA UntoldTells ==
  ASSUME NEW program \in LogTools
  PROVE  Untold \in Truths /\ Told(program, <<>>, Untold, "runs") /\ Whole(Untold)
<1>1. Untold \in Truths
  BY DEF Untold, Truths, Endings
<1>2. Range(<<>>) = {} /\ Untold.judged = <<>> /\ Untold.ticks = <<>> /\ Untold.bursts = {} /\ Untold.misses = 0
  BY RangeNone DEF Untold
<1>3. Whole(Untold) /\ SourcesIn(Untold) = {}
  BY <1>2 DEF Whole, SourcesIn
<1>4. Ended(<<>>, "runs") /\ BlocksTold(<<>>, Untold, "runs") /\ MissesTold(<<>>, Untold)
  BY <1>2, <1>3 DEF Ended, BlocksTold, MissesTold
<1>5. TicksTold(<<>>, Untold)
  <2>1. 0 .. Len(Untold.ticks) - 1 = {} /\ Len(Untold.ticks) = 0
    BY <1>2
  <2> QED
    BY <1>2, <2>1, FramesPositive DEF TicksTold
<1>6. Tracks(Silence, {})
  <2>1. 0 .. 0 + Silence.best - 1 \subseteq {}
    BY DEF Silence
  <2>2. ASSUME NEW f \in Nat, NEW k \in Nat, f .. f + k - 1 \subseteq {} PROVE k <= Silence.best
    <3>1. f \notin f .. f + k - 1
      BY <2>2
    <3> QED
      BY <3>1 DEF Silence
  <2>3. Silence.best = 0 /\ Silence.run = 0 /\ Silence.previous = -2
    BY DEF Silence
  <2> QED
    BY <2>1, <2>2, <2>3 DEF Tracks
<1> QED
  BY <1>1, <1>2, <1>3, <1>4, <1>5, <1>6, HeardNothing DEF Told

\* A tool begins with an empty log.
LEMMA LogsInvInit ==
  ASSUME LogsInit
  PROVE  LogsInv
<1>1. which \in LogTools /\ Begin
  BY DEF LogsInit
<1>2. /\ image = 1 /\ frame = 0 /\ pending = NoBlock /\ tally = [ok |-> 0, bad |-> 0]
      /\ log = <<>> /\ state = "runs" /\ code = -1 /\ truth = [i \in {1, 2} |-> Untold]
  BY <1>1 DEF Begin
<1>3. truth[1] = Untold /\ truth[2] = Untold
  BY <1>2
<1>4. Untold \in Truths /\ Told(which, log, truth[image], state) /\ Whole(Untold)
  BY <1>1, <1>2, <1>3, UntoldTells
<1>5. NoBlock \in LogBlocks
  BY DEF NoBlock, LogBlocks
<1>6. LogTypes
  BY <1>2, <1>4, <1>5, FramesPositive DEF LogTypes, Endings
<1>7. Running
  BY <1>2, <1>3, <1>4 DEF Running, Untold
<1> QED
  BY <1>2, <1>3, <1>4, <1>6, <1>7 DEF LogsInv

\* A step of the emulator, when what it tells is right and it goes on rightly.
LEMMA EmulatorStep ==
  ASSUME LogsInv, state = "runs", which' = which, image' = image, code' = code,
         frame' \in 0 .. Frames, pending' \in LogBlocks, tally' \in [ok : Nat, bad : Nat],
         log' \in Seq(LogLines), state' \in Endings, NEW u \in Truths,
         truth' = [truth EXCEPT ![image] = u],
         Told(which, log', u, state'),
         state' = "runs" => /\ Len(u.ticks) = frame' /\ u.bursts \subseteq 0 .. frame' - 1
                            /\ tally'.bad = 0 <=> Whole(u)
  PROVE  LogsInv'
<1>1. image \in {1, 2} /\ truth \in [{1, 2} -> Truths] /\ code = -1
  BY DEF LogsInv, LogTypes, Running
<1>2. truth'[image] = u /\ truth' \in [{1, 2} -> Truths] /\ \A i \in {1, 2} : i # image => truth'[i] = truth[i]
  BY <1>1
<1>3. LogTypes'
  BY <1>1, <1>2 DEF LogTypes
<1>4. Told(which', log', truth'[image'], state')
  BY <1>2
<1>5. image' = 2 => TwoImages' /\ Told(which', truth'[1].log, truth'[1], truth'[1].ended)
  BY <1>1, <1>2 DEF LogsInv, TwoImages
<1>6. image' = 1 => truth'[2] = Untold
  BY <1>1, <1>2 DEF LogsInv
<1>7. state' = "runs" => Running'
  BY <1>1, <1>2 DEF Running
<1> QED
  BY <1>1, <1>3, <1>4, <1>5, <1>6, <1>7 DEF LogsInv

\* A block's header is written, and the block before it is judged.
LEMMA HeaderStep ==
  ASSUME which \in LogTools, LogsInv, NEW b \in Sources, NEW intact \in BOOLEAN, Header(b, intact)
  PROVE  LogsInv'
<1> DEFINE t == truth[image]
           u == [t EXCEPT !.judged = t.judged \o Judged(pending)]
           more == verify_pending(pending, tally)
<1>1. /\ state = "runs" /\ Verified /\ log' = log \o more /\ tally' = Tallied(pending, tally)
      /\ truth' = [truth EXCEPT ![image].judged = @ \o Judged(pending)]
      /\ pending' = [source |-> b, intact |-> intact]
      /\ UNCHANGED <<which, image, frame, state, code>>
  BY DEF Header
<1>2. /\ image \in {1, 2} /\ frame \in 0 .. Frames /\ pending \in LogBlocks
      /\ tally \in [ok : Nat, bad : Nat] /\ log \in Seq(LogLines) /\ truth \in [{1, 2} -> Truths]
  BY DEF LogsInv, LogTypes
<1>3. Running /\ Told(which, log, t, "runs")
  BY <1>1 DEF LogsInv, Running
<1>4. t \in Truths /\ truth' = [truth EXCEPT ![image] = u]
  BY <1>1, <1>2
<1>5. /\ u.judged = t.judged \o Judged(pending) /\ u.ticks = t.ticks /\ u.bursts = t.bursts
      /\ u.misses = t.misses /\ u.log = t.log /\ u.ended = t.ended
  BY <1>4 DEF Truths
<1>6. /\ u.judged \in Seq(LogBlocks) /\ (Whole(u) <=> Whole(t) /\ pending.intact)
      /\ SourcesIn(u) = SourcesIn(t) \cup {q.source : q \in Range(Judged(pending))}
  <2> HIDE DEF u, t
  <2> QED
    BY <1>2, <1>4, <1>5, JudgedOn
<1>7. u \in Truths
  BY <1>4, <1>6 DEF Truths
<1>8. /\ more \in Seq(LogLines) /\ \A ln \in Range(more) : ln.is \in {"BLKEND", "BLKBAD"}
      /\ Named(Range(more)) = {q.source : q \in Range(Judged(pending))}
  BY <1>2, PendingIs
<1>9. tally' \in [ok : Nat, bad : Nat] /\ (tally'.bad = 0 <=> tally.bad = 0 /\ pending.intact)
  BY <1>1, <1>2, TalliedIs
<1>10. which \in {"audio", "tour"}
  BY <1>1, AsksAre
<1> HIDE DEF t, u, more
<1>11. Ended(log \o more, "runs")
  BY <1>2, <1>3, <1>8, EndedOn DEF Told
<1>12. BlocksTold(log \o more, u, "runs")
  <2>1. BlocksTold(log, t, "runs")
    BY <1>3, <1>10 DEF Told
  <2>2. SourcesIn(u) = SourcesIn(t) \cup Named(Range(more)) /\ \A ln \in Range(more) : ln.is # "BLOCKS"
    BY <1>6, <1>8
  <2> QED
    BY <1>2, <1>8, <2>1, <2>2, BlocksOn
<1>13. which = "tour" => TicksTold(log \o more, u)
  <2> SUFFICES ASSUME which = "tour" PROVE TicksTold(log \o more, u)
    OBVIOUS
  <2>1. TicksTold(log, t) /\ \A ln \in Range(more) : ln.is # "TICK"
    BY <1>3, <1>8 DEF Told
  <2> QED
    BY <1>2, <1>5, <1>8, <2>1, TicksKept
<1>14. Told(which, log \o more, u, "runs")
  BY <1>10, <1>11, <1>12, <1>13 DEF Told
<1>15. Len(u.ticks) = frame /\ u.bursts \subseteq 0 .. frame - 1 /\ (tally'.bad = 0 <=> Whole(u))
  BY <1>3, <1>5, <1>6, <1>9 DEF Running, t
<1>16. pending' \in LogBlocks
  BY <1>1 DEF LogBlocks
<1>17. log \o more \in Seq(LogLines)
  BY <1>2, <1>8, RangeJoin
<1> QED
  BY <1>1, <1>2, <1>4, <1>7, <1>9, <1>14, <1>15, <1>16, <1>17, EmulatorStep DEF Endings

\* A scan ends, within its budget or past it.
LEMMA ScanStep ==
  ASSUME which \in LogTools, LogsInv, NEW steps \in {SCAN_BUDGET, SCAN_BUDGET + 1}, Scan(steps)
  PROVE  LogsInv'
<1> DEFINE t == truth[image]
           ln == Line("SCANLEN", 0, steps, 0)
           over == IF steps > SCAN_BUDGET THEN 1 ELSE 0
           u == [t EXCEPT !.misses = t.misses + over]
<1>1. /\ state = "runs" /\ "SFSCANLEN" \in Asks /\ log' = Append(log, ln)
      /\ truth' = [truth EXCEPT ![image].misses = @ + (IF steps > SCAN_BUDGET THEN 1 ELSE 0)]
      /\ UNCHANGED <<which, image, frame, pending, tally, state, code>>
  BY DEF Scan
<1>2. /\ image \in {1, 2} /\ frame \in 0 .. Frames /\ pending \in LogBlocks
      /\ tally \in [ok : Nat, bad : Nat] /\ log \in Seq(LogLines) /\ truth \in [{1, 2} -> Truths]
  BY DEF LogsInv, LogTypes
<1>3. Running /\ Told(which, log, t, "runs")
  BY <1>1 DEF LogsInv, Running
<1>4. t \in Truths /\ truth' = [truth EXCEPT ![image] = u]
  BY <1>1, <1>2
<1>5. /\ u.judged = t.judged /\ u.ticks = t.ticks /\ u.bursts = t.bursts
      /\ u.misses = t.misses + over /\ u.log = t.log /\ u.ended = t.ended /\ t.misses \in Nat
  BY <1>4 DEF Truths
<1>6. u \in Truths
  <2>1. t.misses + over \in Nat
    BY <1>5
  <2> QED
    BY <1>4, <2>1 DEF Truths
<1>7. ln \in LogLines /\ ln.is = "SCANLEN" /\ ln.a = steps
  BY RunBounds DEF ln, Line, LogLines, LineKinds
<1>8. which = "validate"
  BY <1>1, AsksAre
<1>9. log' = log \o <<ln>> /\ <<ln>> \in Seq(LogLines) /\ Range(<<ln>>) = {ln}
  <2> HIDE DEF ln
  <2>1. Append(log, ln) = log \o <<ln>>
    BY <1>2, <1>7, AppendIsConcat
  <2> QED
    BY <1>1, <1>7, <2>1, RangeOne
<1>10. Ended(log', "runs")
  <2>1. \A l \in Range(<<ln>>) : l.is # "RESULT"
    BY <1>7, <1>9
  <2> HIDE DEF ln
  <2> QED
    BY <1>2, <1>3, <1>9, <2>1, EndedOn DEF Told
<1>11. MissesTold(log', u)
  <2>1. over = 0 <=> ~(steps > SCAN_BUDGET)
    BY RunBounds
  <2>2. u.misses = 0 <=> t.misses = 0 /\ \A l \in Range(<<ln>>) : l.is = "SCANLEN" => ~(l.a > SCAN_BUDGET)
    <3> HIDE DEF over, ln, u, t
    <3>1. over \in Nat
      BY DEF over
    <3>2. u.misses = 0 <=> t.misses = 0 /\ over = 0
      BY <1>5, <3>1
    <3>3. over = 0 <=> ~(ln.a > SCAN_BUDGET)
      BY <1>7, <2>1, Zenon
    <3>4. over = 0 <=> \A l \in Range(<<ln>>) : l.is = "SCANLEN" => ~(l.a > SCAN_BUDGET)
      BY <1>7, <1>9, <3>3, Zenon
    <3> QED
      BY <3>2, <3>4, Zenon
  <2>3. MissesTold(log, t)
    BY <1>3, <1>8 DEF Told
  <2> HIDE DEF ln, u, t, over
  <2>4. MissesTold(log \o <<ln>>, u)
    BY <1>2, <1>9, <2>2, <2>3, MissesOn
  <2> QED
    BY <1>9, <2>4
<1>12. Tracks(Listened(log'), u.bursts)
  <2> HIDE DEF ln, u, t
  <2>1. Listened(log') = Heard(Listened(log), ln)
    BY <1>1, <1>2, <1>7, HeardAppend
  <2>2. Heard(Listened(log), ln) = Listened(log)
    BY <1>7 DEF Heard
  <2> QED
    BY <1>3, <1>5, <1>8, <2>1, <2>2 DEF Told
<1> HIDE DEF t, u, ln
<1>13. Told(which, log', u, "runs")
  BY <1>8, <1>10, <1>11, <1>12 DEF Told
<1>14. Len(u.ticks) = frame /\ u.bursts \subseteq 0 .. frame - 1 /\ (tally.bad = 0 <=> Whole(u))
  BY <1>3, <1>5 DEF Running, t, Whole
<1>15. log' \in Seq(LogLines)
  BY <1>2, <1>9, RangeJoin
<1> QED
  BY <1>1, <1>2, <1>4, <1>6, <1>13, <1>14, <1>15, EmulatorStep DEF Endings

\* A frame ends: what each tool's log says more.
LEMMA FrameStep ==
  ASSUME which \in LogTools, LogsInv, NEW main \in Nat, NEW nmi \in Nat, NEW burst \in BOOLEAN,
         which # "validate" => ~burst, EndFrame(main, nmi, burst)
  PROVE  LogsInv'
<1> DEFINE t == truth[image]
           opens == (frame + 1) % BUDGET = 0 /\ frame + 1 < Frames /\ "SFTOUR" \in Asks
           tick == Line("TICK", frame, main, nmi)
           apu == Line("APU", frame, 0, 0)
           tour == Line("TOUR", frame + 1, (frame + 1) \div BUDGET, 0)
           first == IF "SFTICK" \in Asks THEN <<tick>> ELSE <<>>
           second == IF burst /\ "SFAPU" \in Asks THEN <<apu>> ELSE <<>>
           third == IF opens THEN <<tour>> ELSE <<>>
           lit == IF burst THEN t.bursts \cup {frame} ELSE t.bursts
           u == [t EXCEPT !.ticks = Append(t.ticks, <<main, nmi>>), !.bursts = lit]
<1>1. /\ state = "runs" /\ frame < Frames /\ log' = log \o first \o second \o third
      /\ pending' = IF opens THEN NoBlock ELSE pending
      /\ frame' = frame + 1
      /\ truth' = [truth EXCEPT ![image].ticks = Append(@, <<main, nmi>>),
                                ![image].bursts = IF burst THEN @ \cup {frame} ELSE @]
      /\ UNCHANGED <<which, image, tally, state, code>>
  BY Zenon DEF EndFrame
<1>2. /\ image \in {1, 2} /\ frame \in 0 .. Frames /\ pending \in LogBlocks
      /\ tally \in [ok : Nat, bad : Nat] /\ log \in Seq(LogLines) /\ truth \in [{1, 2} -> Truths]
  BY DEF LogsInv, LogTypes
<1>3. Running /\ Told(which, log, t, "runs")
  BY <1>1 DEF LogsInv, Running
<1>4. t \in Truths /\ truth' = [truth EXCEPT ![image] = u]
  BY <1>1, <1>2
<1>5. /\ u.judged = t.judged /\ u.ticks = Append(t.ticks, <<main, nmi>>) /\ u.bursts = lit
      /\ u.misses = t.misses /\ u.log = t.log /\ u.ended = t.ended
      /\ t.ticks \in Seq(Nat \X Nat) /\ t.bursts \in SUBSET Nat /\ Len(t.ticks) = frame
  BY <1>3, <1>4 DEF Truths, Running
<1>6. frame \in Nat /\ Frames \in Nat /\ frame + 1 \in 0 .. Frames
  BY <1>1, <1>2, FramesPositive
<1>7. u \in Truths
  <2>1. u.ticks \in Seq(Nat \X Nat)
    <3>1. <<main, nmi>> \in Nat \X Nat
      OBVIOUS
    <3> QED
      BY <1>5, <3>1
  <2>2. u.bursts \in SUBSET Nat
    BY <1>5, <1>6
  <2> QED
    BY <1>4, <2>1, <2>2 DEF Truths
<1>8. tick \in LogLines /\ apu \in LogLines /\ tour \in LogLines
  <2>1. (frame + 1) \div BUDGET \in Nat
    BY <1>6, RunBounds, DivNat
  <2> QED
    BY <1>6, <2>1 DEF Line, LogLines, LineKinds
<1>9. /\ tick.is = "TICK" /\ tick.n = frame /\ tick.a = main /\ tick.b = nmi
      /\ apu.is = "APU" /\ apu.n = frame /\ tour.is = "TOUR"
  BY DEF Line
<1> HIDE DEF tick, apu, tour, opens
<1>10. first \in Seq(LogLines) /\ second \in Seq(LogLines) /\ third \in Seq(LogLines)
  BY <1>8
<1>11. /\ Range(first) = IF "SFTICK" \in Asks THEN {tick} ELSE {}
       /\ Range(second) = IF burst /\ "SFAPU" \in Asks THEN {apu} ELSE {}
       /\ Range(third) = IF opens THEN {tour} ELSE {}
  BY RangeOne, RangeNone, Zenon
<1> DEFINE more == first \o second \o third
<1>12. more \in Seq(LogLines) /\ Range(more) = Range(first) \cup Range(second) \cup Range(third)
  <2> HIDE DEF first, second, third
  <2> DEFINE pair == first \o second
  <2>1. pair \in Seq(LogLines) /\ Range(pair) = Range(first) \cup Range(second)
    BY <1>10, RangeJoin
  <2>2. more = pair \o third
    OBVIOUS
  <2> HIDE DEF pair, more
  <2>3. pair \o third \in Seq(LogLines) /\ Range(pair \o third) = Range(pair) \cup Range(third)
    BY <1>10, <2>1, RangeJoin
  <2> QED
    BY <2>1, <2>2, <2>3
<1>13. log' = log \o more
  <2> HIDE DEF first, second, third
  <2> DEFINE pair == first \o second
  <2>0. \A a, b, c \in Seq(LogLines) : (a \o b) \o c = a \o (b \o c)
    BY ConcatAssociative
  <2>1. (log \o first) \o second = log \o pair
    BY <1>2, <1>10, <2>0
  <2>2. pair \in Seq(LogLines)
    BY <1>10, ConcatProperties
  <2>3. more = pair \o third /\ log' = ((log \o first) \o second) \o third
    BY <1>1
  <2> HIDE DEF pair, more
  <2>4. (log \o pair) \o third = log \o (pair \o third)
    BY <1>2, <1>10, <2>0, <2>2
  <2> QED
    BY <2>1, <2>3, <2>4
<1>14. \A l \in Range(more) : l \in {tick, apu, tour}
  BY <1>11, <1>12
<1>15. \A l \in Range(more) : l.is \in {"TICK", "APU", "TOUR"}
  BY <1>9, <1>14
<1>16. Named(Range(more)) = {} /\ SourcesIn(u) = SourcesIn(t) /\ (Whole(u) <=> Whole(t))
  BY <1>5, <1>15 DEF Named, SourcesIn, Whole
<1>17. Ended(log \o more, "runs")
  <2>1. \A l \in Range(more) : l.is # "RESULT"
    BY <1>15
  <2> HIDE DEF more
  <2> QED
    BY <1>2, <1>3, <1>12, <2>1, EndedOn DEF Told
<1>18. which \in {"audio", "tour"} => BlocksTold(log \o more, u, "runs")
  <2> SUFFICES ASSUME which \in {"audio", "tour"} PROVE BlocksTold(log \o more, u, "runs")
    OBVIOUS
  <2> HIDE DEF more, u, t
  <2>1. BlocksTold(log, t, "runs")
    BY <1>3 DEF Told
  <2>2. \A l \in Range(more) : l.is # "BLOCKS"
    BY <1>15
  <2>3. SourcesIn(u) = SourcesIn(t) \cup Named(Range(more))
    BY <1>16
  <2> QED
    BY <1>2, <1>12, <2>1, <2>2, <2>3, BlocksOn
<1>19. which = "tour" => TicksTold(log \o more, u)
  <2> SUFFICES ASSUME which = "tour" PROVE TicksTold(log \o more, u)
    OBVIOUS
  <2>1. TicksTold(log, t)
    BY <1>3 DEF Told
  <2>2. Range(first) = {tick}
    BY <1>11, AsksAre, Zenon
  <2>3. \A l \in Range(second) \cup Range(third) : l.is # "TICK"
    BY <1>9, <1>11
  <2>4. Ticked(Range(more)) = {<<Len(t.ticks), main, nmi>>}
    <3> HIDE DEF first, second, third, more
    <3>1. {l \in Range(more) : l.is = "TICK"} = {tick}
      BY <1>9, <1>12, <2>2, <2>3
    <3> QED
      BY <1>5, <1>9, <3>1 DEF Ticked
  <2> HIDE DEF more, u, t
  <2> QED
    BY <1>1, <1>2, <1>5, <1>12, <2>1, <2>4, TicksOn
<1>20. which = "validate" => MissesTold(log \o more, u) /\ Tracks(Listened(log \o more), u.bursts)
  <2> SUFFICES ASSUME which = "validate" PROVE MissesTold(log \o more, u) /\ Tracks(Listened(log \o more), u.bursts)
    OBVIOUS
  <2>1. MissesTold(log, t) /\ Tracks(Listened(log), t.bursts)
    BY <1>3 DEF Told
  <2>2. MissesTold(log \o more, u)
    <3> HIDE DEF more, u, t
    <3>1. u.misses = 0 <=> t.misses = 0 /\ \A l \in Range(more) : l.is = "SCANLEN" => ~(l.a > SCAN_BUDGET)
      BY <1>5, <1>15
    <3> QED
      BY <1>2, <1>12, <2>1, <3>1, MissesOn
  <2>3. "SFTICK" \notin Asks /\ "SFAPU" \in Asks /\ ~opens
    <3>1. "SFTOUR" \notin Asks
      BY DEF Asks, ValidateAsks
    <3> QED
      BY <3>1, AsksAre DEF opens
  <2>4. first = <<>> /\ third = <<>> /\ second = IF burst THEN <<apu>> ELSE <<>>
    BY <2>3, Zenon
  <2>5. CASE burst
    <3>1. log \o more = Append(log, apu)
      <4>1. more = <<apu>>
        <5>1. more = <<>> \o <<apu>> \o <<>>
          BY <2>4, <2>5, Zenon
        <5>2. <<>> \o <<apu>> \o <<>> = <<apu>>
          BY <1>8
        <5> QED
          BY <5>1, <5>2
      <4> HIDE DEF more
      <4> QED
        BY <1>2, <1>8, <4>1, AppendIsConcat
    <3>2. u.bursts = t.bursts \cup {frame}
      BY <1>5, <2>5
    <3> HIDE DEF more, u, first, second, third
    <3>3. Listened(log \o more) = Burst(Listened(log), frame)
      <4>1. Listened(Append(log, apu)) = Heard(Listened(log), apu)
        BY <1>2, <1>8, HeardAppend
      <4>2. Heard(Listened(log), apu) = Burst(Listened(log), frame)
        BY <1>9 DEF Heard
      <4> QED
        BY <3>1, <4>1, <4>2
    <3>4. t.bursts \in SUBSET (0 .. frame - 1)
      BY <1>3 DEF Running
    <3> HIDE DEF t
    <3>5. Tracks(Burst(Listened(log), frame), t.bursts \cup {frame})
      BY <1>6, <2>1, <3>4, TracksOn
    <3> QED
      BY <2>2, <3>2, <3>3, <3>5
  <2>6. CASE ~burst
    <3>1. log \o more = log
      <4>1. more = <<>> \o <<>> \o <<>>
        BY <2>4, <2>6, Zenon
      <4>2. <<>> \o <<>> \o <<>> = <<>>
        OBVIOUS
      <4> HIDE DEF more
      <4>3. more = <<>>
        BY <4>1, <4>2
      <4> QED
        BY <1>2, <4>3, ConcatEmptySeq
    <3>2. u.bursts = t.bursts
      BY <1>5, <2>6
    <3> HIDE DEF more, u, t
    <3> QED
      BY <2>1, <2>2, <3>1, <3>2
  <2> QED
    BY <2>5, <2>6
<1>21. Told(which, log \o more, u, "runs")
  <2> HIDE DEF more, u
  <2> QED
    BY <1>17, <1>18, <1>19, <1>20 DEF Told
<1>22. Len(u.ticks) = frame' /\ u.bursts \subseteq 0 .. frame' - 1 /\ (tally'.bad = 0 <=> Whole(u))
  <2>1. Len(u.ticks) = frame + 1
    BY <1>5
  <2>2. t.bursts \subseteq 0 .. frame - 1 /\ (tally.bad = 0 <=> Whole(t))
    BY <1>3 DEF Running
  <2>3. lit \subseteq 0 .. frame
    BY <1>6, <2>2
  <2>4. frame' - 1 = frame
    BY <1>1, <1>6
  <2> HIDE DEF u, t, lit
  <2> QED
    BY <1>1, <1>5, <1>16, <2>1, <2>2, <2>3, <2>4
<1>23. pending' \in LogBlocks
  BY <1>1, <1>2 DEF NoBlock, LogBlocks
<1>24. log \o more \in Seq(LogLines)
  <2> HIDE DEF more
  <2> QED
    BY <1>2, <1>12, RangeJoin
<1> HIDE DEF more, u, first, second, third, t
<1>25. state' \in Endings /\ Told(which, log', u, state') /\ log' \in Seq(LogLines)
  BY <1>1, <1>13, <1>21, <1>24 DEF Endings
<1>26. /\ state = "runs" /\ which' = which /\ image' = image /\ code' = code
       /\ frame' \in 0 .. Frames /\ tally' \in [ok : Nat, bad : Nat]
  BY <1>1, <1>2, <1>6
<1> QED
  BY <1>4, <1>7, <1>22, <1>23, <1>25, <1>26, EmulatorStep

\* The last frame is over: the blocks are counted and the run finishes.
LEMMA FinishStep ==
  ASSUME which \in LogTools, LogsInv, Finish
  PROVE  LogsInv'
<1> DEFINE t == truth[image]
           u == [t EXCEPT !.judged = t.judged \o Judged(pending)]
           named == verify_pending(pending, tally)
           blocks == Line("BLOCKS", 0, Tallied(pending, tally).ok, Tallied(pending, tally).bad)
           result == Line("RESULT", frame, 0, 0)
           first == IF Verified THEN named \o <<blocks>> ELSE <<>>
           more == first \o <<result>>
<1>1. /\ state = "runs" /\ frame = Frames /\ log' = log \o first \o <<result>>
      /\ truth' = [truth EXCEPT ![image].judged = @ \o Judged(pending)]
      /\ state' = "finished"
      /\ UNCHANGED <<which, image, frame, pending, tally, code>>
  BY Zenon DEF Finish
<1>2. /\ image \in {1, 2} /\ frame \in 0 .. Frames /\ pending \in LogBlocks
      /\ tally \in [ok : Nat, bad : Nat] /\ log \in Seq(LogLines) /\ truth \in [{1, 2} -> Truths]
  BY DEF LogsInv, LogTypes
<1>3. Running /\ Told(which, log, t, "runs")
  BY <1>1 DEF LogsInv, Running
<1>4. t \in Truths /\ truth' = [truth EXCEPT ![image] = u]
  BY <1>1, <1>2
<1>5. /\ u.judged = t.judged \o Judged(pending) /\ u.ticks = t.ticks /\ u.bursts = t.bursts
      /\ u.misses = t.misses /\ u.log = t.log /\ u.ended = t.ended
  BY <1>4 DEF Truths
<1>6. /\ u.judged \in Seq(LogBlocks) /\ (Whole(u) <=> Whole(t) /\ pending.intact)
      /\ SourcesIn(u) = SourcesIn(t) \cup {q.source : q \in Range(Judged(pending))}
  <2> HIDE DEF u, t
  <2> QED
    BY <1>2, <1>4, <1>5, JudgedOn
<1>7. u \in Truths
  BY <1>4, <1>6 DEF Truths
<1>8. /\ named \in Seq(LogLines) /\ \A ln \in Range(named) : ln.is \in {"BLKEND", "BLKBAD"}
      /\ Named(Range(named)) = {q.source : q \in Range(Judged(pending))}
  BY <1>2, PendingIs
<1>9. Tallied(pending, tally) \in [ok : Nat, bad : Nat] /\ (Tallied(pending, tally).bad = 0 <=> Whole(u))
  <2>1. Tallied(pending, tally).bad = 0 <=> tally.bad = 0 /\ pending.intact
    BY <1>2, TalliedIs
  <2>2. tally.bad = 0 <=> Whole(t)
    BY <1>3 DEF Running
  <2>3. Tallied(pending, tally) \in [ok : Nat, bad : Nat]
    BY <1>2, TalliedIs
  <2> HIDE DEF u, t
  <2>4. Tallied(pending, tally).bad = 0 <=> Whole(u)
    BY <1>6, <2>1, <2>2, Zenon
  <2> QED
    BY <2>3, <2>4
<1>10. /\ blocks \in LogLines /\ blocks.is = "BLOCKS" /\ blocks.b = Tallied(pending, tally).bad
       /\ result \in LogLines /\ result.is = "RESULT" /\ result.n = Frames
  <2>1. Tallied(pending, tally).ok \in Nat /\ Tallied(pending, tally).bad \in Nat /\ frame \in Nat
    BY <1>2, <1>9, FramesPositive
  <2>2. blocks \in LogLines /\ result \in LogLines
    BY <2>1 DEF Line, LogLines, LineKinds
  <2>3. blocks.is = "BLOCKS" /\ blocks.b = Tallied(pending, tally).bad /\ result.is = "RESULT" /\ result.n = Frames
    BY <1>1 DEF Line
  <2> QED
    BY <2>2, <2>3
<1> HIDE DEF named, blocks, result
<1>11. /\ first \in Seq(LogLines)
       /\ Verified => Range(first) = Range(named) \cup {blocks}
       /\ ~Verified => Range(first) = {}
  <2>1. <<blocks>> \in Seq(LogLines) /\ Range(<<blocks>>) = {blocks}
    BY <1>10, RangeOne
  <2>2. named \o <<blocks>> \in Seq(LogLines) /\ Range(named \o <<blocks>>) = Range(named) \cup Range(<<blocks>>)
    BY <1>8, <2>1, RangeJoin
  <2>3. CASE Verified
    BY <2>1, <2>2, <2>3
  <2>4. CASE ~Verified
    BY <2>4, RangeNone
  <2> QED
    BY <2>3, <2>4
<1>12. more \in Seq(LogLines) /\ Range(more) = Range(first) \cup {result}
  <2> HIDE DEF first
  <2>1. <<result>> \in Seq(LogLines) /\ Range(<<result>>) = {result}
    BY <1>10, RangeOne
  <2>0. \A s, q \in Seq(LogLines) : s \o q \in Seq(LogLines) /\ Range(s \o q) = Range(s) \cup Range(q)
    BY RangeJoin
  <2>2. first \o <<result>> \in Seq(LogLines) /\ Range(first \o <<result>>) = Range(first) \cup Range(<<result>>)
    BY <1>11, <2>0, <2>1
  <2> QED
    BY <2>1, <2>2
<1>13. log' = log \o more
  <2> HIDE DEF first
  <2>1. <<result>> \in Seq(LogLines)
    BY <1>10
  <2>2. \A a, b, c \in Seq(LogLines) : (a \o b) \o c = a \o (b \o c)
    BY ConcatAssociative
  <2> QED
    BY <1>1, <1>2, <1>11, <2>1, <2>2
<1>14. Range(log \o more) = Range(log) \cup Range(more) /\ log \o more \in Seq(LogLines)
  <2> HIDE DEF more
  <2> QED
    BY <1>2, <1>12, RangeJoin
<1> HIDE DEF first, more, u, t
<1>15. \A ln \in Range(more) : ln.is \in {"BLKEND", "BLKBAD", "BLOCKS", "RESULT"}
  BY <1>8, <1>10, <1>11, <1>12
<1>16. Ended(log \o more, "finished")
  <2>1. result \in Range(log \o more)
    BY <1>12, <1>14
  <2>2. \A ln \in Range(log) : ln.is # "RESULT"
    BY <1>3 DEF Told, Ended
  <2>3. \A ln \in Range(more) : ln.is = "RESULT" => ln = result
    BY <1>8, <1>10, <1>11, <1>12
  <2> QED
    BY <1>10, <1>14, <2>1, <2>2, <2>3 DEF Ended
<1>17. which \in {"audio", "tour"} => BlocksTold(log \o more, u, "finished")
  <2> SUFFICES ASSUME which \in {"audio", "tour"} PROVE BlocksTold(log \o more, u, "finished")
    OBVIOUS
  <2>1. Verified
    BY AsksAre
  <2>2. Range(log \o more) = Range(log) \cup Range(named) \cup {blocks, result}
    BY <1>11, <1>12, <1>14, <2>1
  <2>3. BlocksTold(log, t, "runs")
    BY <1>3 DEF Told
  <2>4. \A ln \in Range(log) \cup Range(named) : ln.is # "BLOCKS"
    BY <1>8, <2>3 DEF BlocksTold
  <2>5. \A ln \in Range(log \o more) : ln.is = "BLOCKS" => ln = blocks
    BY <1>10, <2>2, <2>4
  <2>6. blocks \in Range(log \o more) /\ blocks.b \in Nat /\ (blocks.b = 0 <=> Whole(u))
    BY <1>9, <1>10, <2>2
  <2>7. Named(Range(log \o more)) = SourcesIn(u)
    <3>1. Named(Range(log \o more)) = Named(Range(log)) \cup Named(Range(named))
      BY <1>10, <2>2 DEF Named
    <3>2. Named(Range(log)) = SourcesIn(t)
      BY <2>3 DEF BlocksTold, Named
    <3> QED
      BY <1>6, <1>8, <3>1, <3>2
  <2>8. \A ln \in Range(log \o more) : ln.is = "BLOCKS" => ln.b \in Nat /\ (ln.b = 0 <=> Whole(u))
    BY <2>5, <2>6, Zenon
  <2>9. \E ln \in Range(log \o more) : ln.is = "BLOCKS"
    BY <1>10, <2>6
  <2> QED
    BY <2>7, <2>8, <2>9, Zenon DEF BlocksTold, Named
<1>18. which = "tour" => TicksTold(log \o more, u)
  <2> SUFFICES ASSUME which = "tour" PROVE TicksTold(log \o more, u)
    OBVIOUS
  <2>1. TicksTold(log, t) /\ \A ln \in Range(more) : ln.is # "TICK"
    BY <1>3, <1>15 DEF Told
  <2> QED
    BY <1>2, <1>5, <1>12, <2>1, TicksKept
<1>19. which = "validate" => MissesTold(log \o more, u) /\ Tracks(Listened(log \o more), u.bursts)
  <2> SUFFICES ASSUME which = "validate" PROVE MissesTold(log \o more, u) /\ Tracks(Listened(log \o more), u.bursts)
    OBVIOUS
  <2>1. MissesTold(log, t) /\ Tracks(Listened(log), t.bursts)
    BY <1>3 DEF Told
  <2>2. MissesTold(log \o more, u)
    <3>1. u.misses = 0 <=> t.misses = 0 /\ \A ln \in Range(more) : ln.is = "SCANLEN" => ~(ln.a > SCAN_BUDGET)
      BY <1>5, <1>15
    <3> QED
      BY <1>2, <1>12, <2>1, <3>1, MissesOn
  <2>3. log \o more = Append(log, result)
    <3>1. ~Verified
      BY AsksAre
    <3>2. more = <<>> \o <<result>>
      BY <3>1, Zenon DEF more, first
    <3>3. <<>> \o <<result>> = <<result>>
      BY <1>10
    <3>4. more = <<result>>
      BY <3>2, <3>3, Zenon
    <3> QED
      BY <1>2, <1>10, <3>4, AppendIsConcat
  <2>4. Listened(log \o more) = Listened(log)
    <3>1. Listened(Append(log, result)) = Heard(Listened(log), result)
      BY <1>2, <1>10, HeardAppend
    <3>2. Heard(Listened(log), result) = Listened(log)
      BY <1>10 DEF Heard
    <3> QED
      BY <2>3, <3>1, <3>2
  <2> QED
    BY <1>5, <2>1, <2>2, <2>4
<1>20. Told(which, log', u, state') /\ state' \in Endings /\ state' # "runs" /\ log' \in Seq(LogLines)
  BY <1>1, <1>13, <1>14, <1>16, <1>17, <1>18, <1>19 DEF Told, Endings
<1>21. /\ state = "runs" /\ which' = which /\ image' = image /\ code' = code
       /\ frame' \in 0 .. Frames /\ tally' \in [ok : Nat, bad : Nat] /\ pending' \in LogBlocks
  BY <1>1, <1>2
<1> QED
  BY <1>4, <1>7, <1>20, <1>21, EmulatorStep

\* A run that stops early, or that never started.
LEMMA StopStep ==
  ASSUME which \in LogTools, LogsInv, Refused \/ Died
  PROVE  LogsInv'
<1> DEFINE t == truth[image]
           ln == Line("FAILED", 0, 0, 0)
<1>1. /\ state = "runs" /\ state' \in {"refused", "died"}
      /\ log' = log \/ (log = <<>> /\ log' = <<ln>>)
      /\ UNCHANGED <<which, image, frame, pending, tally, truth, code>>
  <2>1. CASE Refused
    BY <2>1 DEF Refused
  <2>2. CASE Died
    BY <2>2 DEF Died
  <2> QED
    BY <2>1, <2>2
<1>2. /\ image \in {1, 2} /\ frame \in 0 .. Frames /\ pending \in LogBlocks
      /\ tally \in [ok : Nat, bad : Nat] /\ log \in Seq(LogLines) /\ truth \in [{1, 2} -> Truths]
  BY DEF LogsInv, LogTypes
<1>3. Running /\ Told(which, log, t, "runs")
  BY <1>1 DEF LogsInv, Running
<1>4. t \in Truths /\ truth' = [truth EXCEPT ![image] = t]
  BY <1>1, <1>2
<1>5. ln \in LogLines /\ ln.is = "FAILED"
  BY DEF Line, LogLines, LineKinds
<1> HIDE DEF ln
<1> DEFINE more == IF log' = log THEN <<>> ELSE <<ln>>
<1>6. more \in Seq(LogLines) /\ \A l \in Range(more) : l.is = "FAILED"
  BY <1>5, RangeOne, RangeNone
<1>7. log' = log \o more
  <2>1. CASE log' = log
    BY <1>2, <2>1
  <2>2. CASE log' # log
    <3>1. log = <<>> /\ log' = <<ln>> /\ more = <<ln>>
      BY <1>1, <2>2
    <3>2. <<>> \o <<ln>> = <<ln>>
      BY <1>5
    <3> HIDE DEF more
    <3> QED
      BY <3>1, <3>2, Zenon
  <2> QED
    BY <2>1, <2>2
<1> HIDE DEF more, t
<1>8. Ended(log \o more, state')
  <2>1. \A l \in Range(more) : l.is # "RESULT"
    BY <1>6
  <2> QED
    BY <1>1, <1>2, <1>3, <1>6, <2>1, EndedOn DEF Told
<1>9. which \in {"audio", "tour"} => BlocksTold(log \o more, t, state')
  <2> SUFFICES ASSUME which \in {"audio", "tour"} PROVE BlocksTold(log \o more, t, state')
    OBVIOUS
  <2>1. BlocksTold(log, t, "runs") /\ \A l \in Range(more) : l.is # "BLOCKS"
    BY <1>3, <1>6 DEF Told
  <2>2. SourcesIn(t) = SourcesIn(t) \cup Named(Range(more))
    BY <1>6 DEF Named
  <2> QED
    BY <1>1, <1>2, <1>6, <2>1, <2>2, BlocksOn
<1>10. which = "tour" => TicksTold(log \o more, t)
  <2> SUFFICES ASSUME which = "tour" PROVE TicksTold(log \o more, t)
    OBVIOUS
  <2>1. TicksTold(log, t) /\ \A l \in Range(more) : l.is # "TICK"
    BY <1>3, <1>6 DEF Told
  <2> QED
    BY <1>2, <1>6, <2>1, TicksKept
<1>11. which = "validate" => MissesTold(log \o more, t) /\ Tracks(Listened(log \o more), t.bursts)
  <2> SUFFICES ASSUME which = "validate" PROVE MissesTold(log \o more, t) /\ Tracks(Listened(log \o more), t.bursts)
    OBVIOUS
  <2>1. MissesTold(log, t) /\ Tracks(Listened(log), t.bursts)
    BY <1>3 DEF Told
  <2>2. MissesTold(log \o more, t)
    <3>1. t.misses = 0 <=> t.misses = 0 /\ \A l \in Range(more) : l.is = "SCANLEN" => ~(l.a > SCAN_BUDGET)
      BY <1>6
    <3> QED
      BY <1>2, <1>6, <2>1, <3>1, MissesOn
  <2>3. CASE log' = log
    BY <1>7, <2>1, <2>2, <2>3
  <2>4. CASE log' # log
    <3>1. log = <<>> /\ log' = <<ln>>
      BY <1>1, <2>4
    <3>2. Append(<<>>, ln) = <<ln>> /\ <<>> \in Seq(LogLines)
      BY <1>5
    <3>3. Listened(Append(<<>>, ln)) = Heard(Listened(<<>>), ln)
      BY <1>5, <3>2, HeardAppend
    <3>4. Heard(Listened(<<>>), ln) = Listened(<<>>)
      BY <1>5 DEF Heard
    <3>5. Listened(log') = Listened(log)
      BY <3>1, <3>2, <3>3, <3>4, Zenon
    <3>6. Listened(log \o more) = Listened(log)
      BY <1>7, <3>5, Zenon
    <3> QED
      BY <2>1, <2>2, <3>6, Zenon
  <2> QED
    BY <2>3, <2>4
<1>12. log \o more \in Seq(LogLines)
  BY <1>2, <1>6, RangeJoin
<1>13. Told(which, log', t, state') /\ state' \in Endings /\ state' # "runs" /\ log' \in Seq(LogLines)
  BY <1>1, <1>7, <1>8, <1>9, <1>10, <1>11, <1>12 DEF Told, Endings
<1>14. /\ state = "runs" /\ which' = which /\ image' = image /\ code' = code
       /\ frame' \in 0 .. Frames /\ tally' \in [ok : Nat, bad : Nat] /\ pending' \in LogBlocks
  BY <1>1, <1>2
<1> QED
  BY <1>4, <1>13, <1>14, EmulatorStep

\* What a log tells does not hang on its having been put away.
LEMMA ToldAside ==
  ASSUME NEW program, NEW lg, NEW st, NEW t, NEW u, Told(program, lg, t, st),
         u.judged = t.judged, u.ticks = t.ticks, u.bursts = t.bursts, u.misses = t.misses
  PROVE  Told(program, lg, u, st)
<1>1. SourcesIn(u) = SourcesIn(t) /\ (Whole(u) <=> Whole(t))
  BY DEF SourcesIn, Whole
<1>2. Ended(lg, st)
  BY DEF Told
<1>3. BlocksTold(lg, t, st) => BlocksTold(lg, u, st)
  BY <1>1 DEF BlocksTold
<1>4. TicksTold(lg, t) => TicksTold(lg, u)
  BY DEF TicksTold
<1>5. MissesTold(lg, t) => MissesTold(lg, u)
  BY DEF MissesTold
<1> QED
  BY <1>2, <1>3, <1>4, <1>5 DEF Told

\* The second image is driven, and the first log put away.
LEMMA SecondStep ==
  ASSUME which \in LogTools, LogsInv, SecondImage
  PROVE  LogsInv'
<1> DEFINE t == truth[1]
           u == [t EXCEPT !.log = log, !.ended = state]
<1>1. /\ state # "runs" /\ TwoImages /\ image = 1 /\ image' = 2 /\ frame' = 0 /\ pending' = NoBlock
      /\ tally' = [ok |-> 0, bad |-> 0] /\ truth' = [truth EXCEPT ![1].log = log, ![1].ended = state]
      /\ log' = <<>> /\ state' = "runs" /\ which' = which /\ code' = code
  BY DEF SecondImage
<1>2. /\ log \in Seq(LogLines) /\ state \in Endings /\ truth \in [{1, 2} -> Truths]
      /\ truth[2] = Untold /\ code = -1
  BY <1>1 DEF LogsInv, LogTypes
<1>3. Told(which, log, t, state)
  BY <1>1, <1>2 DEF LogsInv
<1>4. t \in Truths /\ truth' = [truth EXCEPT ![1] = u]
  BY <1>1, <1>2
<1>5. /\ u.judged = t.judged /\ u.ticks = t.ticks /\ u.bursts = t.bursts /\ u.misses = t.misses
      /\ u.log = log /\ u.ended = state
  BY <1>4 DEF Truths
<1>6. u \in Truths
  BY <1>2, <1>4 DEF Truths
<1>7. truth'[1] = u /\ truth'[2] = Untold /\ truth' \in [{1, 2} -> Truths]
  BY <1>2, <1>4, <1>6
<1> HIDE DEF t, u
<1>8. Told(which, log, u, state)
  BY <1>3, <1>5, ToldAside
<1>9. Untold \in Truths /\ Told(which, <<>>, Untold, "runs") /\ Whole(Untold)
  BY UntoldTells
<1>10. LogTypes'
  <2>1. NoBlock \in LogBlocks
    BY DEF NoBlock, LogBlocks
  <2> QED
    BY <1>1, <1>2, <1>7, <2>1, FramesPositive DEF LogTypes, Endings
<1>11. Running'
  BY <1>1, <1>2, <1>7, <1>9 DEF Running, Untold
<1>12. TwoImages'
  BY <1>1 DEF TwoImages
<1>13. Told(which', log', truth'[image'], state') /\ Told(which', truth'[1].log, truth'[1], truth'[1].ended)
  BY <1>1, <1>5, <1>7, <1>8, <1>9
<1> QED
  BY <1>1, <1>2, <1>10, <1>11, <1>12, <1>13 DEF LogsInv

\* A tool puts the log away and gives its exit code.
LEMMA ConcludeStep ==
  ASSUME which \in LogTools, LogsInv, NEW exit \in {0, 1}, Conclude(exit), TwoImages => image = 2, Concluded'
  PROVE  LogsInv'
<1> DEFINE t == truth[image]
           u == [t EXCEPT !.log = log, !.ended = state]
<1>1. /\ state # "runs" /\ code = -1 /\ code' = exit
      /\ truth' = [truth EXCEPT ![image].log = log, ![image].ended = state]
      /\ UNCHANGED <<which, image, frame, pending, tally, log, state>>
  BY DEF Conclude
<1>2. /\ image \in {1, 2} /\ log \in Seq(LogLines) /\ state \in Endings /\ truth \in [{1, 2} -> Truths]
      /\ LogTypes
  BY DEF LogsInv, LogTypes
<1>3. Told(which, log, t, state)
  BY <1>1 DEF LogsInv
<1>4. t \in Truths /\ truth' = [truth EXCEPT ![image] = u]
  BY <1>1, <1>2
<1>5. /\ u.judged = t.judged /\ u.ticks = t.ticks /\ u.bursts = t.bursts /\ u.misses = t.misses
      /\ u.log = log /\ u.ended = state
  BY <1>4 DEF Truths
<1>6. u \in Truths
  BY <1>2, <1>4 DEF Truths
<1>7. truth'[image] = u /\ truth' \in [{1, 2} -> Truths] /\ \A i \in {1, 2} : i # image => truth'[i] = truth[i]
  BY <1>2, <1>4, <1>6
<1> HIDE DEF t, u
<1>8. Told(which, log, u, state)
  BY <1>3, <1>5, ToldAside
<1>9. LogTypes'
  BY <1>1, <1>2, <1>7 DEF LogTypes
<1>10. image' = 2 => TwoImages' /\ Told(which', truth'[1].log, truth'[1], truth'[1].ended)
  BY <1>1, <1>2, <1>7 DEF LogsInv, TwoImages
<1>11. image' = 1 => truth'[2] = Untold
  BY <1>1, <1>2, <1>7 DEF LogsInv
<1>12. Told(which', log', truth'[image'], state') /\ truth'[image'].log = log' /\ truth'[image'].ended = state'
  BY <1>1, <1>5, <1>7, <1>8
<1>13. state' # "runs" /\ (TwoImages' => image' = 2) /\ code' # 2
  BY <1>1 DEF TwoImages
<1> QED
  BY <1>9, <1>10, <1>11, <1>12, <1>13 DEF LogsInv

\* The four tools, each with its own exit code.
LEMMA ToolStep ==
  ASSUME which \in LogTools, LogsInv, CompareAudio \/ TourAudio \/ ValidateAll \/ StageDiff
  PROVE  LogsInv'
<1>1. CASE CompareAudio
  <2> DEFINE exit == IF verdict(read(truth[1].log), read(log)) = {} THEN 0 ELSE 1
  <2>1. which = "audio" /\ image = 2 /\ Conclude(exit)
    BY <1>1 DEF CompareAudio
  <2>2. truth'[1] = truth[1] /\ log' = log /\ code' = exit /\ which' = which
    <3>1. truth \in [{1, 2} -> Truths]
      BY DEF LogsInv, LogTypes
    <3>2. truth' = [truth EXCEPT ![image].log = log, ![image].ended = state]
      BY <2>1, Zenon DEF Conclude
    <3>3. log' = log /\ code' = exit /\ which' = which
      BY <2>1, Zenon DEF Conclude
    <3> QED
      BY <2>1, <3>1, <3>2, <3>3
  <2>3. exit \in {0, 1}
    OBVIOUS
  <2>4. Concluded'
    BY <2>1, <2>2 DEF Concluded
  <2> HIDE DEF exit
  <2> QED
    BY <2>1, <2>3, <2>4, ConcludeStep
<1>2. CASE TourAudio
  <2> DEFINE exit == IF passed(log) THEN 0 ELSE 1
  <2>1. which = "tour" /\ Conclude(exit) /\ exit \in {0, 1}
    BY <1>2 DEF TourAudio
  <2>2. log' = log /\ code' = exit /\ which' = which
    BY <2>1, Zenon DEF Conclude
  <2>3. Concluded'
    BY <2>1, <2>2 DEF Concluded
  <2>4. TwoImages => image = 2
    BY <2>1 DEF TwoImages
  <2> HIDE DEF exit
  <2> QED
    BY <2>1, <2>3, <2>4, ConcludeStep
<1>3. CASE ValidateAll
  <2> DEFINE exit == IF summarise(log).load /\ summarise(log).misses = 0 /\ summarise(log).frames = Frames THEN 0 ELSE 1
  <2>1. which = "validate" /\ Conclude(exit) /\ exit \in {0, 1}
    BY <1>3, Zenon DEF ValidateAll
  <2>2. log' = log /\ code' = exit /\ which' = which
    BY <2>1, Zenon DEF Conclude
  <2>3. Concluded'
    BY <2>1, <2>2 DEF Concluded
  <2>4. TwoImages => image = 2
    BY <2>1 DEF TwoImages
  <2> HIDE DEF exit
  <2> QED
    BY <2>1, <2>3, <2>4, ConcludeStep
<1>4. CASE StageDiff
  <2>1. which = "stages" /\ image = 2 /\ Conclude(0)
    BY <1>4 DEF StageDiff
  <2>2. which' = which
    BY <2>1 DEF Conclude
  <2>3. Concluded'
    BY <2>1, <2>2 DEF Concluded
  <2> QED
    BY <2>1, <2>3, ConcludeStep
<1> QED
  BY <1>1, <1>2, <1>3, <1>4

\* A command line without two images.
LEMMA UsageStep ==
  ASSUME which \in LogTools, LogsInv, Usage
  PROVE  LogsInv'
<1>1. /\ which = "audio" /\ image = 1 /\ state = "runs" /\ state' = "refused" /\ image' = 2 /\ code' = 2
      /\ UNCHANGED <<which, frame, pending, tally, log, truth>>
  BY DEF Usage
<1>2. LogTypes'
  BY <1>1 DEF LogsInv, LogTypes, Endings
<1>3. TwoImages'
  BY <1>1 DEF TwoImages
<1> QED
  BY <1>1, <1>2, <1>3 DEF LogsInv

\* A step of a tool that reads a log keeps its invariant.
LEMMA LogsInvStep ==
  ASSUME which \in LogTools, LogsInv, LogsNext \/ UNCHANGED logVars
  PROVE  LogsInv'
<1>1. CASE UNCHANGED logVars
  BY <1>1 DEF logVars, LogsInv, LogTypes, Running, Concluded, TwoImages
<1>2. ASSUME NEW b \in Sources, NEW intact \in BOOLEAN, Header(b, intact) PROVE LogsInv'
  BY <1>2, HeaderStep
<1>3. ASSUME NEW steps \in {SCAN_BUDGET, SCAN_BUDGET + 1}, Scan(steps) PROVE LogsInv'
  BY <1>3, ScanStep
<1>4. ASSUME NEW main \in Ticks, NEW nmi \in Ticks, NEW burst \in BOOLEAN, which # "validate" => ~burst,
             EndFrame(main, nmi, burst)
      PROVE  LogsInv'
  <2>1. main \in Nat /\ nmi \in Nat
    BY RunBounds
  <2> QED
    BY <1>4, <2>1, FrameStep
<1>5. CASE Finish
  BY <1>5, FinishStep
<1>6. CASE Refused \/ Died
  BY <1>6, StopStep
<1>7. CASE SecondImage
  BY <1>7, SecondStep
<1>8. CASE Usage
  BY <1>8, UsageStep
<1>9. CASE CompareAudio \/ TourAudio \/ ValidateAll \/ StageDiff
  BY <1>9, ToolStep
<1> QED
  BY <1>1, <1>2, <1>3, <1>4, <1>5, <1>6, <1>7, <1>8, <1>9, Zenon DEF LogsNext

-----------------------------------------------------------------------------
(* What is read *)

\* The lines of a kind, and the last of them, are lines of the log.
LEMMA OfIs ==
  ASSUME NEW lg \in Seq(LogLines), NEW is
  PROVE  /\ Of(lg, is) # {} <=> \E ln \in Range(lg) : ln.is = is
         /\ Of(lg, is) # {} => LastOf(lg, is) \in Range(lg) /\ LastOf(lg, is).is = is
         /\ Of(lg, is) = {} => LastOf(lg, is) = Line(is, 0, 0, 0)
         /\ {lg[k] : k \in Of(lg, is)} = {ln \in Range(lg) : ln.is = is}
<1>1. Len(lg) \in Nat /\ DOMAIN lg = 1 .. Len(lg)
  OBVIOUS
<1>2. Of(lg, is) # {} <=> \E ln \in Range(lg) : ln.is = is
  BY DEF Of, Range
<1>3. ASSUME Of(lg, is) # {} PROVE LastOf(lg, is) \in Range(lg) /\ LastOf(lg, is).is = is
  <2>1. Of(lg, is) \in SUBSET (1 .. Len(lg))
    BY <1>1 DEF Of
  <2>2. Max(Of(lg, is)) \in Of(lg, is)
    BY <1>1, <1>3, <2>1, MaxWithin
  <2>3. LastOf(lg, is) = lg[Max(Of(lg, is))]
    BY <1>3 DEF LastOf
  <2> DEFINE k == Max(Of(lg, is))
  <2> HIDE DEF k
  <2>4. k \in DOMAIN lg /\ lg[k].is = is /\ LastOf(lg, is) = lg[k]
    BY <2>2, <2>3 DEF Of, k
  <2> QED
    BY <2>4 DEF Range
<1>4. Of(lg, is) = {} => LastOf(lg, is) = Line(is, 0, 0, 0)
  BY DEF LastOf
<1>5. {lg[k] : k \in Of(lg, is)} = {ln \in Range(lg) : ln.is = is}
  BY DEF Of, Range
<1> QED
  BY <1>2, <1>3, <1>4, <1>5

\* A log has a RESULT line exactly when the run went to its end.
LEMMA EndIsRead ==
  ASSUME NEW lg \in Seq(LogLines), NEW st, Ended(lg, st)
  PROVE  /\ Of(lg, "RESULT") # {} <=> st = "finished"
         /\ st = "finished" => LastOf(lg, "RESULT").n = Frames
<1>1. Of(lg, "RESULT") # {} <=> st = "finished"
  BY OfIs DEF Ended
<1>2. ASSUME st = "finished" PROVE LastOf(lg, "RESULT").n = Frames
  <2>1. LastOf(lg, "RESULT") \in Range(lg) /\ LastOf(lg, "RESULT").is = "RESULT"
    BY <1>1, <1>2, OfIs
  <2> QED
    BY <2>1 DEF Ended
<1> QED
  BY <1>1, <1>2

\* What compare_audio.read makes of a log.
LEMMA ReadIs ==
  ASSUME NEW lg \in Seq(LogLines), NEW t, NEW st, Ended(lg, st), BlocksTold(lg, t, st)
  PROVE  /\ read(lg).load <=> st = "finished"
         /\ read(lg).bad \in Nat
         /\ st = "finished" => read(lg).frames = Frames /\ (read(lg).bad = 0 <=> Whole(t))
         /\ DOMAIN uploads(read(lg)) = SourcesIn(t)
<1> DEFINE r == read(lg)
<1>1. /\ r.load = (Of(lg, "RESULT") # {}) /\ r.frames = LastOf(lg, "RESULT").n
      /\ r.bad = LastOf(lg, "BLOCKS").b /\ r.blocks = [k \in Of(lg, "BLKEND") |-> lg[k]]
  BY DEF read
<1> HIDE DEF r
<1>2. r.load <=> st = "finished"
  <2>1. Of(lg, "RESULT") # {} <=> st = "finished"
    BY EndIsRead
  <2> QED
    BY <1>1, <2>1, Zenon
<1>3. st = "finished" => r.frames = Frames
  BY <1>1, EndIsRead
<1>4. r.bad \in Nat /\ (st = "finished" => (r.bad = 0 <=> Whole(t)))
  <2>1. CASE Of(lg, "BLOCKS") = {}
    <3>1. LastOf(lg, "BLOCKS").b = 0
      BY <2>1, OfIs DEF Line
    <3>2. st # "finished"
      BY <2>1, OfIs DEF BlocksTold
    <3> QED
      BY <1>1, <3>1, <3>2
  <2>2. CASE Of(lg, "BLOCKS") # {}
    <3>1. LastOf(lg, "BLOCKS") \in Range(lg) /\ LastOf(lg, "BLOCKS").is = "BLOCKS"
      BY <2>2, OfIs
    <3>2. LastOf(lg, "BLOCKS").b \in Nat /\ (LastOf(lg, "BLOCKS").b = 0 <=> Whole(t))
      BY <3>1 DEF BlocksTold
    <3> QED
      BY <1>1, <3>2, Zenon
  <2> QED
    BY <2>1, <2>2
<1>5. DOMAIN uploads(r) = SourcesIn(t)
  <2>1. DOMAIN uploads(r) = {ln.a : ln \in Range(r.blocks)}
    BY DEF uploads
  <2>2. Range(r.blocks) = {lg[k] : k \in Of(lg, "BLKEND")}
    BY <1>1 DEF Range
  <2>3. Range(r.blocks) = {ln \in Range(lg) : ln.is = "BLKEND"}
    BY <2>2, OfIs, Zenon
  <2> QED
    BY <2>1, <2>3 DEF BlocksTold
<1> QED
  BY <1>2, <1>3, <1>4, <1>5, Zenon DEF r

\* What a run was, in the words of the log.
LEMMA SoundIs ==
  ASSUME NEW i \in {1, 2}
  PROVE  /\ Sound(i) <=> truth[i].ended = "finished" /\ Whole(truth[i])
         /\ SourcesOf(i) = SourcesIn(truth[i])
<1>1. Whole(truth[i]) <=> \A k \in DOMAIN truth[i].judged : truth[i].judged[k].intact
  BY Zenon DEF Whole, Range
<1> QED
  BY <1>1, Zenon DEF Sound, SourcesOf, SourcesIn

\* compare_audio passes what it should and names what is gone.
LEMMA AudioTells ==
  ASSUME LogsInv, which = "audio", code \in {0, 1}
  PROVE  /\ code = 0 <=> Sound(1) /\ Sound(2) /\ SourcesOf(1) \subseteq SourcesOf(2)
         /\ audio_report(read(truth[1].log), read(truth[2].log)).gone = SourcesOf(1) \ SourcesOf(2)
<1> DEFINE one == read(truth[1].log)
           two == read(truth[2].log)
<1>1. image = 2 /\ truth \in [{1, 2} -> Truths] /\ truth[2].log = log /\ truth[2].ended = state /\ Concluded
  BY DEF LogsInv, LogTypes, TwoImages
<1>2. Told(which, truth[1].log, truth[1], truth[1].ended) /\ Told(which, truth[2].log, truth[2], truth[2].ended)
  BY <1>1 DEF LogsInv
<1>3. code = IF verdict(one, two) = {} THEN 0 ELSE 1
  BY <1>1 DEF Concluded
<1>4. \A i \in {1, 2} : truth[i].log \in Seq(LogLines)
  BY <1>1 DEF Truths
<1>5. /\ one.load <=> truth[1].ended = "finished"
      /\ one.bad \in Nat /\ (truth[1].ended = "finished" => (one.bad = 0 <=> Whole(truth[1])))
      /\ DOMAIN uploads(one) = SourcesIn(truth[1])
  BY <1>2, <1>4, ReadIs DEF Told
<1>6. /\ two.load <=> truth[2].ended = "finished"
      /\ two.bad \in Nat /\ (truth[2].ended = "finished" => (two.bad = 0 <=> Whole(truth[2])))
      /\ DOMAIN uploads(two) = SourcesIn(truth[2])
  BY <1>2, <1>4, ReadIs DEF Told
<1> HIDE DEF one, two
<1>7. missing(one, two) = SourcesOf(1) \ SourcesOf(2)
  BY <1>5, <1>6, SoundIs DEF missing
<1>8. audio_report(one, two).gone = missing(one, two)
  BY DEF audio_report
<1>9. verdict(one, two) = {} <=> /\ one.load /\ two.load /\ one.bad + two.bad = 0
                                 /\ missing(one, two) = {}
  BY Zenon DEF verdict
<1>10. one.bad + two.bad = 0 <=> one.bad = 0 /\ two.bad = 0
  BY <1>5, <1>6
<1>11. verdict(one, two) = {} <=> Sound(1) /\ Sound(2) /\ SourcesOf(1) \subseteq SourcesOf(2)
  <2>1. missing(one, two) = {} <=> SourcesOf(1) \subseteq SourcesOf(2)
    BY <1>7
  <2>2. Sound(1) <=> truth[1].ended = "finished" /\ Whole(truth[1])
    BY SoundIs
  <2>3. Sound(2) <=> truth[2].ended = "finished" /\ Whole(truth[2])
    BY SoundIs
  <2> QED
    BY <1>5, <1>6, <1>9, <1>10, <2>1, <2>2, <2>3, Zenon
<1>12. code = 0 <=> verdict(one, two) = {}
  BY <1>3
<1> QED
  BY <1>7, <1>8, <1>11, <1>12, Zenon DEF one, two

\* A frame of the tour belongs to the slot its number falls in.
LEMMA SlotIs ==
  ASSUME NEW f \in 0 .. Frames - 1, NEW ln, ln.n = f
  PROVE  SlotOf(ln) = f \div BUDGET
<1>1. Frames \in Nat \ {0} /\ ROSTER \in Nat \ {0} /\ BUDGET \in Nat \ {0} /\ f \in Nat /\ f < ROSTER * BUDGET
  BY FramesPositive, RunBounds DEF Frames
<1> DEFINE q == f \div BUDGET
<1>2. q \in Nat
  BY <1>1
<1>3. q * BUDGET <= f
  BY <1>1
<1>4. q < ROSTER
  <2> HIDE DEF q
  <2>1. \A a, b, c \in Nat : a >= b => a * c >= b * c
    OBVIOUS
  <2> SUFFICES ASSUME q >= ROSTER PROVE FALSE
    BY <1>1, <1>2
  <2>2. q * BUDGET >= ROSTER * BUDGET
    BY <1>1, <1>2, <2>1
  <2>3. ROSTER * BUDGET \in Nat /\ q * BUDGET \in Nat
    BY <1>1, <1>2
  <2> QED
    BY <1>1, <1>3, <2>2, <2>3
<1> HIDE DEF q
<1>5. Min({q, ROSTER - 1}) = q
  <2>1. {q, ROSTER - 1} \in SUBSET Nat /\ q \in {q, ROSTER - 1} /\ \A y \in {q, ROSTER - 1} : q <= y
    BY <1>1, <1>2, <1>4
  <2> QED
    BY <2>1, MinIs
<1> QED
  BY <1>5 DEF SlotOf, q

\* What the tour reads of a slot are the counters of its frames.
LEMMA SlotRead ==
  ASSUME NEW lg \in Seq(LogLines), NEW t \in Truths, TicksTold(lg, t), NEW s \in 0 .. ROSTER - 1
  PROVE  LET frames == {g \in 0 .. Len(t.ticks) - 1 : g \div BUDGET = s}
         IN  /\ parse(lg)[s].main = {t.ticks[f + 1][1] : f \in frames}
             /\ parse(lg)[s].nmi = {t.ticks[f + 1][2] : f \in frames}
<1> DEFINE n == Len(t.ticks)
           frames == {g \in 0 .. n - 1 : g \div BUDGET = s}
           T == {ln \in Range(lg) : ln.is = "TICK"}
           K == {k \in Of(lg, "TICK") : SlotOf(lg[k]) = s}
<1>1. n \in Nat /\ n <= Frames /\ Frames \in Nat \ {0}
  BY FramesPositive DEF TicksTold, Truths
<1>2. parse(lg)[s].main = {lg[k].a : k \in K} /\ parse(lg)[s].nmi = {lg[k].b : k \in K}
  BY DEF parse
<1>3. {lg[k] : k \in Of(lg, "TICK")} = T
  BY OfIs
<1>4. {<<ln.n, ln.a, ln.b>> : ln \in T} = {<<f, t.ticks[f + 1][1], t.ticks[f + 1][2]>> : f \in 0 .. n - 1}
  BY DEF TicksTold
<1> HIDE DEF T, n
<1>5. ASSUME NEW k \in K
      PROVE  \E f \in frames : lg[k].a = t.ticks[f + 1][1] /\ lg[k].b = t.ticks[f + 1][2]
  <2> DEFINE ln == lg[k]
  <2>1. ln \in T /\ SlotOf(ln) = s
    BY <1>3, <1>5
  <2> HIDE DEF ln
  <2>2. <<ln.n, ln.a, ln.b>> \in {<<f, t.ticks[f + 1][1], t.ticks[f + 1][2]>> : f \in 0 .. n - 1}
    BY <1>4, <2>1
  <2>3. PICK f \in 0 .. n - 1 : ln.n = f /\ ln.a = t.ticks[f + 1][1] /\ ln.b = t.ticks[f + 1][2]
    BY <2>2
  <2>4. f \in 0 .. Frames - 1
    BY <1>1
  <2>5. f \div BUDGET = s
    BY <2>1, <2>3, <2>4, SlotIs
  <2> QED
    BY <2>3, <2>5 DEF ln
<1>6. ASSUME NEW f \in frames
      PROVE  \E k \in K : lg[k].a = t.ticks[f + 1][1] /\ lg[k].b = t.ticks[f + 1][2]
  <2>1. <<f, t.ticks[f + 1][1], t.ticks[f + 1][2]>> \in {<<ln.n, ln.a, ln.b>> : ln \in T}
    BY <1>4, <1>6
  <2>2. PICK ln \in T : f = ln.n /\ t.ticks[f + 1][1] = ln.a /\ t.ticks[f + 1][2] = ln.b
    BY <2>1
  <2>3. PICK k \in Of(lg, "TICK") : lg[k] = ln
    BY <1>3, <2>2
  <2>4. f \in 0 .. Frames - 1
    BY <1>1, <1>6
  <2>5. SlotOf(ln) = f \div BUDGET
    BY <2>2, <2>4, SlotIs
  <2>6. k \in K
    BY <1>6, <2>3, <2>5
  <2> HIDE DEF K
  <2> QED
    BY <2>2, <2>3, <2>6
<1> HIDE DEF K, frames
<1>7. {lg[k].a : k \in K} = {t.ticks[f + 1][1] : f \in frames}
  BY <1>5, <1>6
<1>8. {lg[k].b : k \in K} = {t.ticks[f + 1][2] : f \in frames}
  BY <1>5, <1>6
<1> QED
  BY <1>2, <1>7, <1>8 DEF frames, n

\* The values a counter took over some of the frames are finitely many.
LEMMA FiniteValues ==
  ASSUME NEW n \in Nat, NEW frames \in SUBSET (0 .. n - 1), NEW h
  PROVE  IsFiniteSet({h[f] : f \in frames}) /\ Cardinality({h[f] : f \in frames}) \in Nat
<1>1. IsFiniteSet(0 .. n - 1)
  BY FS_Interval
<1>2. IsFiniteSet(frames)
  BY <1>1, FS_Subset
<1> DEFINE V == {h[f] : f \in frames}
           g == [f \in frames |-> h[f]]
<1>3. g \in Surjection(frames, V)
  BY DEF Surjection
<1> HIDE DEF g, V
<1>4. IsFiniteSet(V)
  BY <1>2, <1>3, FS_Surjection
<1>5. Cardinality(V) \in Nat
  BY <1>4, FS_CardinalityType
<1> QED
  BY <1>4, <1>5 DEF V

\* tour_audio passes a run that was sound and moved both counters in each slot.
LEMMA TourTells ==
  ASSUME LogsInv, which = "tour", code \in {0, 1}
  PROVE  code = 0 <=> Sound(1) /\ \A s \in 0 .. ROSTER - 1 : Moved(s)
<1> DEFINE t == truth[1]
           r == read(log)
           n == Len(t.ticks)
           frames(s) == {g \in 0 .. n - 1 : g \div BUDGET = s}
<1>1. image \in {1, 2} /\ image # 2 /\ truth \in [{1, 2} -> Truths] /\ log \in Seq(LogLines)
  BY DEF LogsInv, LogTypes, TwoImages
<1>2. image = 1 /\ t.log = log /\ t.ended = state /\ Told("tour", log, t, state) /\ Concluded
  BY <1>1 DEF LogsInv
<1>3. t \in Truths /\ n \in Nat
  BY <1>1 DEF Truths
<1>4. Ended(log, state) /\ BlocksTold(log, t, state) /\ TicksTold(log, t)
  BY <1>2 DEF Told
<1>5. code = 0 <=> passed(log)
  BY <1>2 DEF Concluded
<1> HIDE DEF t, r, n
<1>6. /\ r.load <=> state = "finished"
      /\ state = "finished" => r.frames = Frames /\ (r.bad = 0 <=> Whole(t))
  BY <1>1, <1>4, ReadIs DEF r
<1>7. Sound(1) <=> state = "finished" /\ Whole(t)
  BY <1>2, SoundIs DEF t
<1>8. ASSUME NEW s \in 0 .. ROSTER - 1
      PROVE  s \notin stalled(parse(log)) <=> Moved(s)
  <2> DEFINE main == parse(log)[s].main
             nmi == parse(log)[s].nmi
  <2>1. main = {t.ticks[f + 1][1] : f \in frames(s)} /\ nmi = {t.ticks[f + 1][2] : f \in frames(s)}
    BY <1>1, <1>3, <1>4, SlotRead DEF n
  <2>2. SlotTicks(s) = {t.ticks[f + 1] : f \in frames(s)}
    BY DEF SlotTicks, t, n
  <2>3. /\ {p[1] : p \in SlotTicks(s)} = {t.ticks[f + 1][1] : f \in frames(s)}
        /\ {p[2] : p \in SlotTicks(s)} = {t.ticks[f + 1][2] : f \in frames(s)}
    <3> HIDE DEF frames
    <3> QED
      BY <2>2
  <2>4. Cardinality(main) \in Nat /\ Cardinality(nmi) \in Nat
    <3> DEFINE h == [f \in frames(s) |-> t.ticks[f + 1][1]]
               k == [f \in frames(s) |-> t.ticks[f + 1][2]]
    <3>1. frames(s) \in SUBSET (0 .. n - 1)
      OBVIOUS
    <3>2. main = {h[f] : f \in frames(s)}
      <4> HIDE DEF frames
      <4> QED
        BY <2>1
    <3>3. nmi = {k[f] : f \in frames(s)}
      <4> HIDE DEF frames
      <4> QED
        BY <2>1
    <3> HIDE DEF h, k, frames, main, nmi
    <3>4. Cardinality({h[f] : f \in frames(s)}) \in Nat /\ Cardinality({k[f] : f \in frames(s)}) \in Nat
      BY <1>3, <3>1, FiniteValues
    <3> QED
      BY <3>2, <3>3, <3>4, Zenon
  <2>5. s \in DOMAIN parse(log)
    BY DEF parse
  <2>6. s \in stalled(parse(log)) <=> Cardinality(main) < 2 \/ Cardinality(nmi) < 2
    BY <2>5 DEF stalled
  <2>7. Moved(s) <=> Cardinality(main) > 1 /\ Cardinality(nmi) > 1
    <3> HIDE DEF frames, main, nmi
    <3> QED
      BY <2>1, <2>3, Zenon DEF Moved
  <2> HIDE DEF main, nmi
  <2> QED
    BY <2>4, <2>6, <2>7
<1>9. stalled(parse(log)) = {} <=> \A s \in 0 .. ROSTER - 1 : Moved(s)
  <2>1. DOMAIN parse(log) = 0 .. ROSTER - 1
    BY DEF parse
  <2>2. stalled(parse(log)) \subseteq 0 .. ROSTER - 1
    BY <2>1 DEF stalled
  <2> QED
    BY <1>8, <2>2
<1>10. passed(log) <=> stalled(parse(log)) = {} /\ r.bad = 0 /\ r.load /\ r.frames = Frames
  BY Zenon DEF passed, r, Frames
<1> QED
  BY <1>5, <1>6, <1>7, <1>9, <1>10, Zenon

\* A scan past its budget is a line past its budget.
LEMMA ValidateTells ==
  ASSUME LogsInv, which = "validate", code \in {0, 1}
  PROVE  /\ code = 0 <=> truth[1].ended = "finished" /\ truth[1].misses = 0
         /\ summarise(log).pause = Max({Cardinality(r) : r \in Runs(truth[1].bursts)} \cup {0})
<1> DEFINE t == truth[1]
           s == summarise(log)
           P == {k \in Of(log, "SCANLEN") : log[k].a > SCAN_BUDGET}
<1>1. image \in {1, 2} /\ image # 2 /\ truth \in [{1, 2} -> Truths] /\ log \in Seq(LogLines)
  BY DEF LogsInv, LogTypes, TwoImages
<1>2. image = 1 /\ t.log = log /\ t.ended = state /\ Told("validate", log, t, state) /\ Concluded
  BY <1>1 DEF LogsInv
<1>3. t.bursts \in SUBSET Nat
  BY <1>1 DEF Truths
<1>4. Ended(log, state) /\ MissesTold(log, t) /\ Tracks(Listened(log), t.bursts)
  BY <1>2 DEF Told
<1>5. /\ s.load = (Of(log, "RESULT") # {}) /\ s.frames = LastOf(log, "RESULT").n
      /\ s.misses = Cardinality(P) /\ s.pause = longest_burst(log)
  BY DEF summarise
<1>6. code = 0 <=> s.load /\ s.misses = 0 /\ s.frames = Frames
  BY <1>2 DEF Concluded
<1> HIDE DEF s, P, t
<1>7. s.load <=> state = "finished"
  <2>1. Of(log, "RESULT") # {} <=> state = "finished"
    BY <1>1, <1>4, EndIsRead
  <2> QED
    BY <1>5, <2>1, Zenon
<1>8. state = "finished" => s.frames = Frames
  BY <1>1, <1>4, <1>5, EndIsRead
<1>9. s.misses = 0 <=> t.misses = 0
  <2>1. IsFiniteSet(P)
    <3>1. Len(log) \in Nat /\ P \subseteq 1 .. Len(log)
      BY <1>1 DEF P, Of
    <3>2. IsFiniteSet(1 .. Len(log))
      BY <3>1, FS_Interval
    <3> QED
      BY <3>1, <3>2, FS_Subset
  <2>2. Cardinality(P) = 0 <=> P = {}
    BY <2>1, FS_EmptySet
  <2>3. P = {} <=> \A ln \in Range(log) : ln.is = "SCANLEN" => ~(ln.a > SCAN_BUDGET)
    BY Zenon DEF P, Of, Range
  <2> QED
    BY <1>4, <1>5, <2>2, <2>3, Zenon DEF MissesTold
<1>10. s.pause = Max({Cardinality(r) : r \in Runs(t.bursts)} \cup {0})
  <2>1. longest_burst(log) = Listened(log).best
    BY DEF longest_burst, Listened
  <2>2. Listened(log).best = Max({Cardinality(r) : r \in Runs(t.bursts)} \cup {0})
    BY <1>3, <1>4, TracksMax
  <2> QED
    BY <1>5, <2>1, <2>2
<1> QED
  BY <1>2, <1>6, <1>7, <1>8, <1>9, <1>10, Zenon DEF s, t

\* stage_diff counts each frame drawn otherwise, and no other but a torn one.
LEMMA StagesTell ==
  ASSUME LogsInv PROVE DiffExact
<1> SUFFICES ASSUME NEW n1 \in 0 .. Len(truth[1].ticks), NEW n2 \in 0 .. Len(truth[2].ticks), NEW torn \in BOOLEAN
    PROVE  LET c == compare(hashes(truth[1].ticks, n1, FALSE), hashes(truth[2].ticks, n2, torn))
               real == {f \in 0 .. Min({n1, n2}) - 1 : truth[1].ticks[f + 1] # truth[2].ticks[f + 1]}
           IN  real \subseteq c.differing /\ c.differing \subseteq real \cup (IF torn THEN {n2 - 1} ELSE {})
  BY Zenon DEF DiffExact
<1> DEFINE one == truth[1].ticks
           two == truth[2].ticks
           kept1 == hashes(one, n1, FALSE)
           kept2 == hashes(two, n2, torn)
           least == Min({n1, n2})
           real == {f \in 0 .. least - 1 : one[f + 1] # two[f + 1]}
           c == compare(kept1, kept2)
<1>1. one \in Seq(Nat \X Nat) /\ two \in Seq(Nat \X Nat)
  BY DEF LogsInv, LogTypes, Truths
<1>2. n1 \in Nat /\ n2 \in Nat /\ n1 <= Len(one) /\ n2 <= Len(two) /\ Len(one) \in Nat /\ Len(two) \in Nat
  BY <1>1
<1>3. least \in {n1, n2} /\ least <= n1 /\ least <= n2
  <2>1. CASE n1 <= n2
    <3>1. {n1, n2} \in SUBSET Nat /\ n1 \in {n1, n2} /\ \A y \in {n1, n2} : n1 <= y
      BY <1>2, <2>1
    <3>2. Min({n1, n2}) = n1
      BY <3>1, MinIs
    <3> QED
      BY <2>1, <3>2
  <2>2. CASE n1 > n2
    <3>1. {n1, n2} \in SUBSET Nat /\ n2 \in {n1, n2} /\ \A y \in {n1, n2} : n2 <= y
      BY <1>2, <2>2
    <3>2. Min({n1, n2}) = n2
      BY <3>1, MinIs
    <3> QED
      BY <2>2, <3>2
  <2> QED
    BY <1>2, <2>1, <2>2
<1>4. kept1 = [f \in 0 .. n1 - 1 |-> one[f + 1]]
  BY DEF hashes
<1>5. kept2 = [f \in 0 .. n2 - 1 |-> IF torn /\ f = n2 - 1 THEN Torn ELSE two[f + 1]]
  BY DEF hashes
<1>6. c.differing = {f \in DOMAIN kept1 \cap DOMAIN kept2 : kept1[f] # kept2[f]}
  BY DEF compare
<1> HIDE DEF kept1, kept2, least, c, one, two
<1>7. DOMAIN kept1 \cap DOMAIN kept2 = 0 .. least - 1
  BY <1>2, <1>3, <1>4, <1>5
<1>8. ASSUME NEW f \in 0 .. least - 1
      PROVE  /\ kept1[f] = one[f + 1] /\ one[f + 1] # Torn
             /\ kept2[f] = IF torn /\ f = n2 - 1 THEN Torn ELSE two[f + 1]
  <2>1. f \in 0 .. n1 - 1 /\ f \in 0 .. n2 - 1 /\ f + 1 \in 1 .. Len(one)
    BY <1>2, <1>3
  <2>2. one[f + 1] \in Nat \X Nat
    BY <1>1, <2>1
  <2>3. one[f + 1] # Torn
    BY <2>2 DEF Torn
  <2> QED
    BY <1>4, <1>5, <2>1, <2>3
<1>9. real \subseteq c.differing
  BY <1>6, <1>7, <1>8
<1>10. c.differing \subseteq real \cup (IF torn THEN {n2 - 1} ELSE {})
  <2> SUFFICES ASSUME NEW f \in c.differing, f \notin real PROVE torn /\ f = n2 - 1
    OBVIOUS
  <2>1. f \in 0 .. least - 1 /\ kept1[f] # kept2[f]
    BY <1>6, <1>7
  <2> QED
    BY <1>8, <2>1
<1> QED
  BY <1>9, <1>10, Zenon DEF c, kept1, kept2, one, two, least

\* In a run of one of the tools that read a log, each log tells what it should
\* of the run so far, and an exit code stands for what was read.
THEOREM LogsInvariant == ToolsSpec => [](which \in LogTools => LogsInv)
<1> DEFINE Inv == which \in LogTools => LogsInv
<1>1. ToolsInit => Inv
  <2> SUFFICES ASSUME ToolsInit, which \in LogTools PROVE LogsInv
    OBVIOUS
  <2>1. Begin
    BY Zenon DEF ToolsInit, OtherInit, LogsInit
  <2> QED
    BY <2>1, LogsInvInit DEF LogsInit
<1>2. Inv /\ [ToolsNext]_toolVars => Inv'
  <2> SUFFICES ASSUME Inv, [ToolsNext]_toolVars, which' \in LogTools PROVE LogsInv'
    OBVIOUS
  <2>1. CASE UNCHANGED toolVars
    <3>1. UNCHANGED logVars
      BY <2>1 DEF toolVars
    <3>2. which \in LogTools
      BY <3>1 DEF logVars
    <3> QED
      BY <3>1, <3>2, LogsInvStep
  <2>2. CASE which \in LogTools /\ LogsNext
    BY <2>2, LogsInvStep
  <2>3. which \in LogTools
    BY InputStays
  <2>4. which # "driver" /\ which # "rebuild"
    BY <2>3 DEF LogTools
  <2>5. ASSUME NEW program, NEW exit, Answers(program, exit) PROVE program \in LogTools
    BY <2>3, <2>5 DEF Answers
  <2>6. \A exit : \A program \in {"doctor", "environment", "audit", "reuse", "find", "map", "analyse", "verify", "freeze",
                        "shape", "driver", "rebuild"} : ~Answers(program, exit)
    BY <2>5, Zenon DEF LogTools
  <2>7. /\ \A exit : ~Answers("doctor", exit) /\ ~Answers("environment", exit) /\ ~Answers("audit", exit)
        /\ \A exit : ~Answers("reuse", exit) /\ ~Answers("find", exit) /\ ~Answers("map", exit)
        /\ \A exit : ~Answers("analyse", exit) /\ ~Answers("verify", exit) /\ ~Answers("freeze", exit)
        /\ \A exit : ~Answers("shape", exit) /\ ~Answers("driver", exit) /\ ~Answers("rebuild", exit)
    BY <2>6, Zenon
  <2>8. ToolsNext => which \in LogTools /\ LogsNext
    BY <2>4, <2>7, Zenon DEF ToolsNext
  <2> QED
    BY <2>1, <2>2, <2>8
<1> QED
  BY <1>1, <1>2, PTL DEF ToolsSpec

\* A tool that reads a log passes an image exactly when its run was sound, for
\* every log there may be: LogsTell.
THEOREM LogsAreTold == ToolsSpec => []LogsTell
<1>1. (which \in LogTools => LogsInv) => LogsTell
  <2> SUFFICES ASSUME which \in LogTools => LogsInv PROVE LogsTell
    OBVIOUS
  <2>1. CASE which \notin LogTools
    BY <2>1, Zenon DEF LogsTell, DiffExact, LogTools
  <2>2. CASE which \in LogTools
    <3>1. LogsInv
      BY <2>2
    <3>2. code \in {-1, 0, 1, 2} /\ (code = 2 => which = "audio")
      BY <3>1 DEF LogsInv, LogTypes
    <3>3. which = "audio" /\ code \in {0, 1} =>
            /\ code = 0 <=> Sound(1) /\ Sound(2) /\ SourcesOf(1) \subseteq SourcesOf(2)
            /\ audio_report(read(truth[1].log), read(truth[2].log)).gone = SourcesOf(1) \ SourcesOf(2)
      BY <3>1, AudioTells
    <3>4. which = "tour" /\ code # -1 => code \in {0, 1}
      BY <3>2
    <3>5. which = "tour" /\ code # -1 => (code = 0 <=> Sound(1) /\ \A s \in 0 .. ROSTER - 1 : Moved(s))
      BY <3>1, <3>4, TourTells
    <3>6. which = "validate" /\ code # -1 => code \in {0, 1}
      BY <3>2
    <3>7. which = "validate" /\ code # -1 =>
            /\ code = 0 <=> truth[1].ended = "finished" /\ truth[1].misses = 0
            /\ summarise(log).pause = Max({Cardinality(r) : r \in Runs(truth[1].bursts)} \cup {0})
      BY <3>1, <3>6, ValidateTells
    <3>8. DiffExact
      BY <3>1, StagesTell
    <3> QED
      BY <3>3, <3>5, <3>7, <3>8, Zenon DEF LogsTell
  <2> QED
    BY <2>1, <2>2
<1> QED
  BY <1>1, LogsInvariant, PTL
=============================================================================
