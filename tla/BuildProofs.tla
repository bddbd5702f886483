---------------------------- MODULE BuildProofs ----------------------------
(***************************************************************************)
(* What a build is made of, and the two halves of one.  First the game     *)
(* patches: the checksum and the contents of a patched cartridge, for      *)
(* every set of fixes, calls and places and every cartridge to start from. *)
(* Then the packer that applies them: what the gate saw is what reaches    *)
(* dist/, and the manifest of a run that succeeds tells the truth about    *)
(* it, for every set of regions, every argument list and any number of     *)
(* runs and edits.  Last the stream table on its way through the three     *)
(* tools, for any games, rounds, tours and tables to start from: no source *)
(* is lost, what has converged is complete, what the tours heard is        *)
(* restored.                                                               *)
(***************************************************************************)
EXTENDS PatchChain, Pack, StreamTable, ModArith, FiniteSetTheorems, SequenceTheorems

\* A patch that stamps what it returns, or returns what it was given, keeps
\* the checksum covering; so does one that writes nothing but the two things
\* the pre-fight patch writes.
LEMMA ApplyCovers ==
  ASSUME NEW patch, NEW already, NEW fits, NEW new, NEW over,
         StampCovers, Apply(patch, already, fits, new, over),
         over = new \/ /\ over = stamp
                       /\ \A pl \in Place :
                            new[pl] \in {rom[pl], {PrefightRoutine}, {CallsRoutine}}
  PROVE  StampCovers'
<1>1. (rom' = rom /\ stamp' = stamp) \/ (rom' = new /\ stamp' = over)
  BY DEF Apply, Returns, Refuses
<1>2. CASE rom' = rom /\ stamp' = stamp
  BY <1>2 DEF StampCovers
<1>3. CASE rom' = new /\ stamp' = over
  BY <1>3 DEF StampCovers
<1> QED BY <1>1, <1>2, <1>3

\* What the pre-fight patch makes of a place.
LEMMA PrefightWrites ==
  \A S, T : \A pl \in Place :
    Written(Written(rom, S, PrefightRoutine), T, CallsRoutine)[pl]
      \in {rom[pl], {PrefightRoutine}, {CallsRoutine}}
BY DEF Written

\* In every order of the patches, the header's checksum covers the whole
\* cartridge but what prefight.apply wrote after the last write_checksum.
THEOREM ChecksumCovers == ChainSpec => []StampCovers
<1>1. ChainInit => StampCovers
  BY DEF ChainInit, StampCovers
<1>2. StampCovers /\ [ChainNext]_chainVars => StampCovers'
  <2> SUFFICES ASSUME StampCovers, [ChainNext]_chainVars PROVE StampCovers'
    OBVIOUS
  <2>1. CASE SpcFast
    BY <2>1, ApplyCovers DEF SpcFast, Stamped
  <2>2. CASE ShinAkuma
    BY <2>2, ApplyCovers DEF ShinAkuma, Stamped
  <2>3. CASE RepeatLoad
    BY <2>3, ApplyCovers DEF RepeatLoad, Stamped
  <2>4. CASE Prefight
    BY <2>4, ApplyCovers, PrefightWrites DEF Prefight
  <2>5. CASE Survey
    BY <2>5 DEF Survey, Returns, Refuses, StampCovers
  <2>6. CASE FixNext
    BY <2>6 DEF FixNext, Refuses, StampCovers
  <2>7. CASE Retire
    BY <2>7 DEF Retire, Returns, StampCovers
  <2>8. CASE UNCHANGED chainVars
    BY <2>8 DEF chainVars, StampCovers
  <2> QED BY <2>1, <2>2, <2>3, <2>4, <2>5, <2>6, <2>7, <2>8 DEF ChainNext
<1> QED BY <1>1, <1>2, PTL DEF ChainSpec

-----------------------------------------------------------------------------
(* Runs *)

\* The kinds of runs, told apart by their first component.
LEMMA Kinds ==
  /\ \A f, g : Stock(f) = Stock(g) => f = g
  /\ \A c, d : Call(c) = Call(d) => c = d
  /\ \A f, c : Stock(f) # Call(c) /\ Stock(f) # Patched(c) /\ Stock(f) # Retired(c)
               /\ Call(f) # Patched(c) /\ Call(f) # Retired(c)
  /\ \A f, c : Patched(f) = Patched(c) => f = c
  /\ \A f : /\ Stock(f) \notin {Gate, Open, Builder, CallsBuilder, CallsRoutine}
            /\ Call(f) \notin {Gate, Open, Builder, CallsBuilder, CallsRoutine}
            /\ Patched(f) \notin {Gate, Open, Builder, CallsBuilder, CallsRoutine}
            /\ Retired(f) \notin {Gate, Open, Builder, CallsBuilder, CallsRoutine}
            /\ Stock(f)[2] = f /\ Call(f)[2] = f
  /\ \A f, c : Patched(f) # Retired(c)
  /\ Gate \notin {Open, Builder, CallsBuilder, CallsRoutine}
  /\ Open \notin {Builder, CallsBuilder, CallsRoutine}
  /\ Builder \notin {CallsBuilder, CallsRoutine} /\ CallsBuilder # CallsRoutine
  BY DEF Stock, Call, Patched, Retired, Gate, Open, Builder, CallsBuilder, CallsRoutine

\* The kinds of places.
LEMMA Apart ==
  /\ \A pl \in Body : pl \in Place /\ pl \notin Driver /\ pl \notin Filler /\ pl # Hook
                      /\ pl # <<"filler", 2>> /\ pl # <<"filler", 0>>
  /\ \A pl \in Driver : pl \in Place /\ pl \notin Body /\ pl \notin Filler /\ pl # Hook
                      /\ pl # <<"filler", 2>> /\ pl # <<"filler", 0>>
  /\ \A pl \in Filler : pl \in Place /\ pl \notin Body /\ pl \notin Driver /\ pl # Hook
  /\ Hook \in Place /\ Hook \notin Body /\ Hook \notin Driver /\ Hook \notin Filler
  /\ <<"filler", 0>> # <<"filler", 2>> /\ <<"filler", 0>> \in Filler /\ <<"filler", 2>> \in Filler
  /\ \A c \in Calls : Target(c) \in Place /\ Target(c) \notin Body /\ Target(c) \notin Driver
                      /\ Target(c) \notin Filler /\ Target(c) # Hook
  BY DEF Body, Driver, Filler, Hook, Target, Place

-----------------------------------------------------------------------------
(* What each patch adds to the image of the others *)

\* The run a set of patches leaves, case by case.
LEMMA Outcomes ==
  ASSUME NEW S
  PROVE  /\ Becomes(S, Gate) = IF "shinakuma" \in S THEN Open ELSE Gate
         /\ \A f \in Fixes : Becomes(S, Stock(f)) = IF "gamefixes" \in S THEN Patched(f) ELSE Stock(f)
         /\ \A c \in Calls : Becomes(S, Call(c)) = IF "gamefixes" \in S THEN Retired(c) ELSE Call(c)
         /\ Becomes(S, CallsBuilder) = IF "prefight" \in S /\ ~Missing(start, Builder)
                                       THEN CallsRoutine ELSE CallsBuilder
         /\ \A run : /\ run \notin {Gate, CallsBuilder}
                     /\ run \notin {Stock(f) : f \in Fixes} /\ run \notin {Call(c) : c \in Calls}
                     => Becomes(S, run) = run
<1>1. Becomes(S, Gate) = IF "shinakuma" \in S THEN Open ELSE Gate
  BY Kinds DEF Becomes
<1>2. ASSUME NEW f \in Fixes
      PROVE  Becomes(S, Stock(f)) = IF "gamefixes" \in S THEN Patched(f) ELSE Stock(f)
  <2>1. Stock(f) # Gate /\ Stock(f) # CallsBuilder /\ Stock(f) \notin {Call(c) : c \in Calls}
        /\ Stock(f) \in {Stock(g) : g \in Fixes} /\ Stock(f)[2] = f
    BY Kinds
  <2> QED
    BY <2>1 DEF Becomes
<1>3. ASSUME NEW c \in Calls
      PROVE  Becomes(S, Call(c)) = IF "gamefixes" \in S THEN Retired(c) ELSE Call(c)
  <2>1. Call(c) # Gate /\ Call(c) # CallsBuilder /\ Call(c) \notin {Stock(g) : g \in Fixes}
        /\ Call(c) \in {Call(d) : d \in Calls} /\ Call(c)[2] = c
    BY Kinds
  <2> QED
    BY <2>1 DEF Becomes
<1>4. Becomes(S, CallsBuilder) = IF "prefight" \in S /\ ~Missing(start, Builder)
                                 THEN CallsRoutine ELSE CallsBuilder
  <2>1. CallsBuilder # Gate /\ CallsBuilder \notin {Stock(g) : g \in Fixes}
        /\ CallsBuilder \notin {Call(c) : c \in Calls}
    BY Kinds
  <2> QED
    BY <2>1 DEF Becomes
<1>5. ASSUME NEW run, run \notin {Gate, CallsBuilder},
             run \notin {Stock(f) : f \in Fixes}, run \notin {Call(c) : c \in Calls}
      PROVE  Becomes(S, run) = run
  BY <1>5 DEF Becomes
<1> QED
  BY <1>1, <1>2, <1>3, <1>4, <1>5

\* A run is untouched, or one of the four that some patch looks for.
LEMMA RunCases ==
  ASSUME NEW run
  PROVE  \/ run = Gate \/ run = CallsBuilder
         \/ \E f \in Fixes : run = Stock(f)
         \/ \E c \in Calls : run = Call(c)
         \/ /\ run \notin {Gate, CallsBuilder}
            /\ run \notin {Stock(f) : f \in Fixes} /\ run \notin {Call(c) : c \in Calls}
  OBVIOUS

\* Where a run that a patch looks for is still in the image, it was there at
\* first, and the patch has not been applied.
LEMMA Origins ==
  ASSUME NEW S, NEW run
  PROVE  /\ Becomes(S, run) = Gate => run = Gate /\ "shinakuma" \notin S
         /\ \A f \in Fixes : Becomes(S, run) = Stock(f) => run = Stock(f) /\ "gamefixes" \notin S
         /\ \A c \in Calls : Becomes(S, run) = Call(c) => run = Call(c) /\ "gamefixes" \notin S
         /\ Becomes(S, run) = Builder => run = Builder
         /\ Becomes(S, run) = CallsBuilder =>
              run = CallsBuilder /\ ("prefight" \notin S \/ Missing(start, Builder))
<1>1. CASE run = Gate
  BY <1>1, Outcomes, Kinds
<1>2. CASE run = CallsBuilder
  BY <1>2, Outcomes, Kinds
<1>3. CASE \E f \in Fixes : run = Stock(f)
  <2>1. PICK f \in Fixes : run = Stock(f)
    BY <1>3
  <2>2. Becomes(S, run) = IF "gamefixes" \in S THEN Patched(f) ELSE Stock(f)
    BY <2>1, Outcomes
  <2>3. CASE "gamefixes" \in S
    BY <2>2, <2>3, Kinds, Zenon
  <2>4. CASE "gamefixes" \notin S
    <3>1. Becomes(S, run) = Stock(f)
      BY <2>2, <2>4
    <3> QED
      BY <2>1, <2>4, <3>1, Kinds, Zenon
  <2> QED
    BY <2>3, <2>4
<1>4. CASE \E c \in Calls : run = Call(c)
  <2>1. PICK c \in Calls : run = Call(c)
    BY <1>4
  <2>2. Becomes(S, run) = IF "gamefixes" \in S THEN Retired(c) ELSE Call(c)
    BY <2>1, Outcomes
  <2>3. CASE "gamefixes" \in S
    BY <2>2, <2>3, Kinds, Zenon
  <2>4. CASE "gamefixes" \notin S
    <3>1. Becomes(S, run) = Call(c)
      BY <2>2, <2>4
    <3> QED
      BY <2>1, <2>4, <3>1, Kinds, Zenon
  <2> QED
    BY <2>3, <2>4
<1>5. CASE /\ run \notin {Gate, CallsBuilder}
           /\ run \notin {Stock(f) : f \in Fixes} /\ run \notin {Call(c) : c \in Calls}
  <2>1. Becomes(S, run) = run
    BY <1>5, Outcomes
  <2> QED
    BY <1>5, <2>1
<1> QED
  BY <1>1, <1>2, <1>3, <1>4, <1>5, RunCases

\* The image, place by place.
LEMMA ImageIs ==
  ASSUME NEW S
  PROVE  /\ Image(S) = [pl \in Place |-> Image(S)[pl]]
         /\ \A pl \in Body : Image(S)[pl] = {Becomes(S, run) : run \in start[pl]}
         /\ \A pl \in Driver : Image(S)[pl] = IF "spcfast" \in S THEN {Fast} ELSE start[pl]
         /\ Image(S)[Hook] = IF "repeatload" \in S THEN {Hooked} ELSE start[Hook]
         /\ Image(S)[<<"filler", 2>>] =
              IF "repeatload" \in S THEN {RepeatRoutine} ELSE start[<<"filler", 2>>]
         /\ Image(S)[<<"filler", 0>>] =
              IF "prefight" \in S THEN {PrefightRoutine} ELSE start[<<"filler", 0>>]
         /\ \A pl \in Place : /\ pl \notin Body /\ pl \notin Driver /\ pl # Hook
                              /\ pl # <<"filler", 2>> /\ pl # <<"filler", 0>>
                              => Image(S)[pl] = start[pl]
<1>1. Image(S) = [pl \in Place |-> Image(S)[pl]]
  BY DEF Image
<1>2. \A pl \in Body : Image(S)[pl] = {Becomes(S, run) : run \in start[pl]}
  BY Apart DEF Image
<1>3. \A pl \in Driver : Image(S)[pl] = IF "spcfast" \in S THEN {Fast} ELSE start[pl]
  BY Apart DEF Image
<1>4. Image(S)[Hook] = IF "repeatload" \in S THEN {Hooked} ELSE start[Hook]
  BY Apart DEF Image
<1>5. Image(S)[<<"filler", 2>>] =
        IF "repeatload" \in S THEN {RepeatRoutine} ELSE start[<<"filler", 2>>]
  BY Apart DEF Image
<1>6. Image(S)[<<"filler", 0>>] =
        IF "prefight" \in S THEN {PrefightRoutine} ELSE start[<<"filler", 0>>]
  BY Apart DEF Image
<1>7. \A pl \in Place : /\ pl \notin Body /\ pl \notin Driver /\ pl # Hook
                        /\ pl # <<"filler", 2>> /\ pl # <<"filler", 0>>
                        => Image(S)[pl] = start[pl]
  BY DEF Image
<1> QED
  BY <1>1, <1>2, <1>3, <1>4, <1>5, <1>6, <1>7

\* Two cartridges that agree at every place are one.
LEMMA SameCart ==
  ASSUME NEW r, NEW q, r = [pl \in Place |-> r[pl]], q = [pl \in Place |-> q[pl]],
         \A pl \in Place : r[pl] = q[pl]
  PROVE  r = q
  OBVIOUS

\* One more patch changes no run but those it looks for.
LEMMA OneMore ==
  ASSUME NEW S, NEW run
  PROVE  /\ Becomes(S \cup {"spcfast"}, run) = Becomes(S, run)
         /\ Becomes(S \cup {"repeatload"}, run) = Becomes(S, run)
         /\ run # Gate => Becomes(S \cup {"shinakuma"}, run) = Becomes(S, run)
         /\ run # CallsBuilder \/ Missing(start, Builder) =>
              Becomes(S \cup {"prefight"}, run) = Becomes(S, run)
         /\ run \notin {Stock(f) : f \in Fixes} /\ run \notin {Call(c) : c \in Calls} =>
              Becomes(S \cup {"gamefixes"}, run) = Becomes(S, run)
<1>1. /\ Becomes(S \cup {"spcfast"}, run) = Becomes(S, run)
      /\ Becomes(S \cup {"repeatload"}, run) = Becomes(S, run)
  BY DEF Becomes
<1>2. run # Gate => Becomes(S \cup {"shinakuma"}, run) = Becomes(S, run)
  BY DEF Becomes
<1>3. run # CallsBuilder \/ Missing(start, Builder) =>
        Becomes(S \cup {"prefight"}, run) = Becomes(S, run)
  BY DEF Becomes
<1>4. run \notin {Stock(f) : f \in Fixes} /\ run \notin {Call(c) : c \in Calls} =>
        Becomes(S \cup {"gamefixes"}, run) = Becomes(S, run)
  BY DEF Becomes
<1> QED
  BY <1>1, <1>2, <1>3, <1>4

\* A place of the body whose runs fare alike under two sets of patches.
LEMMA BodyKept ==
  ASSUME NEW S, NEW T, NEW pl \in Body,
         \A run \in start[pl] : Becomes(T, run) = Becomes(S, run)
  PROVE  Image(T)[pl] = Image(S)[pl]
<1>1. Image(T)[pl] = {Becomes(T, run) : run \in start[pl]}
  BY ImageIs
<1>2. Image(S)[pl] = {Becomes(S, run) : run \in start[pl]}
  BY ImageIs
<1> QED
  BY <1>1, <1>2

\* spcfast.py adds the driver.
LEMMA SpcImage ==
  ASSUME NEW S
  PROVE  Image(S \cup {"spcfast"}) = Written(Image(S), Driver, Fast)
<1> DEFINE T == S \cup {"spcfast"}
           W == Written(Image(S), Driver, Fast)
<1>1. ASSUME NEW pl \in Body PROVE Image(T)[pl] = Image(S)[pl]
  <2>1. \A run \in start[pl] : Becomes(T, run) = Becomes(S, run)
    BY OneMore
  <2> HIDE DEF T
  <2> QED
    BY <2>1, BodyKept
<1>2. \A pl \in Driver : Image(T)[pl] = {Fast}
  BY ImageIs
<1>3. ASSUME NEW pl \in Place, pl \notin Body, pl \notin Driver PROVE Image(T)[pl] = Image(S)[pl]
  <2>1. ("repeatload" \in T <=> "repeatload" \in S) /\ ("prefight" \in T <=> "prefight" \in S)
    OBVIOUS
  <2> HIDE DEF T
  <2> QED
    BY <1>3, <2>1, ImageIs
<1>4. ASSUME NEW pl \in Place PROVE Image(T)[pl] = W[pl]
  <2>1. W[pl] = IF pl \in Driver THEN {Fast} ELSE Image(S)[pl]
    BY DEF Written
  <2> HIDE DEF T, W
  <2> QED
    BY <1>1, <1>2, <1>3, <2>1, Apart
<1>5. Image(T) = [pl \in Place |-> Image(T)[pl]] /\ W = [pl \in Place |-> W[pl]]
  <2>1. W = [pl \in Place |-> W[pl]]
    BY DEF Written
  <2> HIDE DEF T
  <2> QED
    BY <2>1, ImageIs
<1> HIDE DEF T, W
<1>6. Image(T) = W
  BY <1>4, <1>5, SameCart
<1> QED
  BY <1>6 DEF T, W

\* repeatload.py adds its routine and the jump to it.
LEMMA RepeatImage ==
  ASSUME NEW S
  PROVE  Image(S \cup {"repeatload"}) =
           Written(Written(Image(S), {<<"filler", 2>>}, RepeatRoutine), {Hook}, Hooked)
<1> DEFINE T == S \cup {"repeatload"}
           V == Written(Image(S), {<<"filler", 2>>}, RepeatRoutine)
           W == Written(V, {Hook}, Hooked)
<1>1. ASSUME NEW pl \in Body PROVE Image(T)[pl] = Image(S)[pl]
  <2>1. \A run \in start[pl] : Becomes(T, run) = Becomes(S, run)
    BY OneMore
  <2> HIDE DEF T
  <2> QED
    BY <2>1, BodyKept
<1>2. Image(T)[Hook] = {Hooked} /\ Image(T)[<<"filler", 2>>] = {RepeatRoutine}
  BY ImageIs
<1>3. ASSUME NEW pl \in Place, pl \notin Body, pl # Hook, pl # <<"filler", 2>>
      PROVE  Image(T)[pl] = Image(S)[pl]
  <2>1. ("spcfast" \in T <=> "spcfast" \in S) /\ ("prefight" \in T <=> "prefight" \in S)
    OBVIOUS
  <2> HIDE DEF T
  <2> QED
    BY <1>3, <2>1, ImageIs
<1>4. ASSUME NEW pl \in Place PROVE Image(T)[pl] = W[pl]
  <2>1. W[pl] = IF pl = Hook THEN {Hooked}
                ELSE IF pl = <<"filler", 2>> THEN {RepeatRoutine} ELSE Image(S)[pl]
    BY DEF Written
  <2> HIDE DEF T, W
  <2> QED
    BY <1>1, <1>2, <1>3, <2>1, Apart
<1>5. Image(T) = [pl \in Place |-> Image(T)[pl]] /\ W = [pl \in Place |-> W[pl]]
  <2>1. W = [pl \in Place |-> W[pl]]
    BY DEF Written
  <2> HIDE DEF T
  <2> QED
    BY <2>1, ImageIs
<1> HIDE DEF T, W
<1>6. Image(T) = W
  BY <1>4, <1>5, SameCart
<1> QED
  BY <1>6 DEF T, W

\* A run that is no fix is all there is at its place.
LEMMA Alone ==
  ASSUME Fitting(start), NEW S, NEW pl \in Body, NEW run \in start[pl],
         run \notin {Stock(f) : f \in Fixes}
  PROVE  start[pl] = {run} /\ Image(S)[pl] = {Becomes(S, run)}
<1>1. start[pl] = {run}
  BY DEF Fitting
<1> QED
  BY <1>1, ImageIs

\* shinakuma.py opens the gate, wherever it is.
LEMMA ShinImage ==
  ASSUME Fitting(start), NEW S
  PROVE  Image(S \cup {"shinakuma"}) = Written(Image(S), Sites(Image(S), Gate), Open)
<1> DEFINE T == S \cup {"shinakuma"}
           W == Written(Image(S), Sites(Image(S), Gate), Open)
<1>1. ASSUME NEW pl \in Body, Gate \in Image(S)[pl] PROVE Image(T)[pl] = {Open}
  <2>1. PICK run \in start[pl] : Becomes(S, run) = Gate
    BY <1>1, ImageIs
  <2>2. run = Gate /\ Gate \notin {Stock(f) : f \in Fixes}
    BY <2>1, Origins, Kinds
  <2>3. Image(T)[pl] = {Becomes(T, Gate)}
    BY <2>2, Alone
  <2> QED
    BY <2>3, Outcomes
<1>2. ASSUME NEW pl \in Body, Gate \notin Image(S)[pl] PROVE Image(T)[pl] = Image(S)[pl]
  <2>1. ASSUME NEW run \in start[pl] PROVE Becomes(T, run) = Becomes(S, run)
    <3>1. CASE run # Gate
      BY <3>1, OneMore
    <3>2. CASE run = Gate
      <4>1. Becomes(S, Gate) \in Image(S)[pl]
        BY <3>2, ImageIs
      <4>2. "shinakuma" \in S
        BY <1>2, <4>1, Outcomes
      <4>3. T = S
        BY <4>2
      <4> QED
        BY <4>3
    <3> QED
      BY <3>1, <3>2
  <2> HIDE DEF T
  <2> QED
    BY <2>1, BodyKept
<1>3. ASSUME NEW pl \in Place, pl \notin Body PROVE Image(T)[pl] = Image(S)[pl]
  <2>1. /\ "spcfast" \in T <=> "spcfast" \in S
        /\ "repeatload" \in T <=> "repeatload" \in S
        /\ "prefight" \in T <=> "prefight" \in S
    OBVIOUS
  <2> HIDE DEF T
  <2> QED
    BY <1>3, <2>1, ImageIs
<1>4. ASSUME NEW pl \in Place PROVE Image(T)[pl] = W[pl]
  <2>1. W[pl] = IF pl \in Body /\ Gate \in Image(S)[pl] THEN {Open} ELSE Image(S)[pl]
    BY DEF Written, Sites
  <2> HIDE DEF T, W
  <2> QED
    BY <1>1, <1>2, <1>3, <2>1
<1>5. Image(T) = [pl \in Place |-> Image(T)[pl]] /\ W = [pl \in Place |-> W[pl]]
  <2>1. W = [pl \in Place |-> W[pl]]
    BY DEF Written
  <2> HIDE DEF T
  <2> QED
    BY <2>1, ImageIs
<1> HIDE DEF T, W
<1>6. Image(T) = W
  BY <1>4, <1>5, SameCart
<1> QED
  BY <1>6 DEF T, W

\* The builder is where it was, whatever has been applied.
LEMMA BuilderStays == ASSUME NEW S PROVE Sites(Image(S), Builder) = Sites(start, Builder)
<1>1. ASSUME NEW pl \in Body PROVE Builder \in Image(S)[pl] <=> Builder \in start[pl]
  <2>1. Image(S)[pl] = {Becomes(S, run) : run \in start[pl]}
    BY ImageIs
  <2>2. Becomes(S, Builder) = Builder
    BY Outcomes, Kinds
  <2>3. \A run : Becomes(S, run) = Builder => run = Builder
    BY Origins
  <2> QED
    BY <2>1, <2>2, <2>3
<1> QED
  BY <1>1 DEF Sites

\* prefight.py adds its routine and points the callers at it.
LEMMA PrefightImage ==
  ASSUME Fitting(start), NEW S
  PROVE  Image(S \cup {"prefight"}) =
           Written(Written(Image(S), {<<"filler", 0>>}, PrefightRoutine),
                   Callers(Image(S)), CallsRoutine)
<1> DEFINE T == S \cup {"prefight"}
           C == Callers(Image(S))
           V == Written(Image(S), {<<"filler", 0>>}, PrefightRoutine)
           W == Written(V, C, CallsRoutine)
<1>0. /\ C \subseteq Body
      /\ \A pl \in Body : pl \in C <=> ~Missing(start, Builder) /\ CallsBuilder \in Image(S)[pl]
  BY BuilderStays DEF Callers, Missing, Sites
<1> HIDE DEF C
<1>1. ASSUME NEW pl \in C PROVE Image(T)[pl] = {CallsRoutine}
  <2>1. pl \in Body /\ CallsBuilder \in Image(S)[pl] /\ ~Missing(start, Builder)
    BY <1>0
  <2>2. PICK run \in start[pl] : Becomes(S, run) = CallsBuilder
    BY <2>1, ImageIs
  <2>3. run = CallsBuilder /\ CallsBuilder \notin {Stock(f) : f \in Fixes}
    BY <2>2, Origins, Kinds
  <2>4. Image(T)[pl] = {Becomes(T, CallsBuilder)}
    BY <2>1, <2>3, Alone
  <2> QED
    BY <2>1, <2>4, Outcomes
<1>2. ASSUME NEW pl \in Body, pl \notin C PROVE Image(T)[pl] = Image(S)[pl]
  <2>1. ASSUME NEW run \in start[pl] PROVE Becomes(T, run) = Becomes(S, run)
    <3>1. CASE run # CallsBuilder \/ Missing(start, Builder)
      BY <3>1, OneMore
    <3>2. CASE run = CallsBuilder /\ ~Missing(start, Builder)
      <4>1. Becomes(S, CallsBuilder) \in Image(S)[pl]
        BY <3>2, ImageIs
      <4>2. "prefight" \in S
        BY <1>0, <1>2, <3>2, <4>1, Outcomes
      <4>3. T = S
        BY <4>2
      <4> QED
        BY <4>3
    <3> QED
      BY <3>1, <3>2
  <2> HIDE DEF T
  <2> QED
    BY <2>1, BodyKept
<1>3. Image(T)[<<"filler", 0>>] = {PrefightRoutine}
  BY ImageIs
<1>4. ASSUME NEW pl \in Place, pl \notin Body, pl # <<"filler", 0>>
      PROVE  Image(T)[pl] = Image(S)[pl]
  <2>1. ("spcfast" \in T <=> "spcfast" \in S) /\ ("repeatload" \in T <=> "repeatload" \in S)
    OBVIOUS
  <2> HIDE DEF T
  <2> QED
    BY <1>4, <2>1, ImageIs
<1>5. ASSUME NEW pl \in Place PROVE Image(T)[pl] = W[pl]
  <2>1. W[pl] = IF pl \in C THEN {CallsRoutine}
                ELSE IF pl = <<"filler", 0>> THEN {PrefightRoutine} ELSE Image(S)[pl]
    BY DEF Written
  <2> HIDE DEF T, W, V
  <2> QED
    BY <1>0, <1>1, <1>2, <1>3, <1>4, <2>1, Apart
<1>6. Image(T) = [pl \in Place |-> Image(T)[pl]] /\ W = [pl \in Place |-> W[pl]]
  <2>1. W = [pl \in Place |-> W[pl]]
    BY DEF Written
  <2> HIDE DEF T
  <2> QED
    BY <2>1, ImageIs
<1> HIDE DEF T, W, V
<1>7. Image(T) = W
  BY <1>5, <1>6, SameCart
<1> QED
  BY <1>7 DEF T, W, V, C

\* The copy in which the fixes of a set have been made.
FixedFor(done) ==
  /\ buffer = [pl \in Place |-> buffer[pl]]
  /\ \A f \in done : \A pl \in Sites(rom, Stock(f)) : buffer[pl] = {Patched(f)}
  /\ \A pl \in Place : (\A f \in done : pl \notin Sites(rom, Stock(f))) => buffer[pl] = rom[pl]

\* gamefixes.py: every fix made and every call retired, it is the image.
LEMMA FixImage ==
  ASSUME Fitting(start), NEW S, rom = Image(S), FixedFor(ToApply)
  PROVE  Image(S \cup {"gamefixes"}) = RetiredIn(buffer)
<1> DEFINE T == S \cup {"gamefixes"}
           W == RetiredIn(buffer)
<1>0. /\ W = [pl \in Place |-> W[pl]]
      /\ \A pl \in Place : (\A c \in Calls : pl \notin Sites(buffer, Call(c))) => W[pl] = buffer[pl]
      /\ \A pl \in Place : \A c \in Calls : pl \in Sites(buffer, Call(c)) =>
           \E d \in Calls : pl \in Sites(buffer, Call(d)) /\ W[pl] = {Retired(d)}
  BY DEF RetiredIn
<1> HIDE DEF W
\* A place with a fix.
<1>1. ASSUME NEW pl \in Body, NEW f \in Fixes, Stock(f) \in rom[pl] PROVE Image(T)[pl] = W[pl]
  <2>1. f \in ToApply /\ pl \in Sites(rom, Stock(f))
    BY <1>1 DEF ToApply, Missing, Sites
  <2>2. buffer[pl] = {Patched(f)}
    BY <2>1 DEF FixedFor
  <2>3. W[pl] = {Patched(f)}
    <3>1. \A c \in Calls : pl \notin Sites(buffer, Call(c))
      BY <2>2, Kinds DEF Sites
    <3> QED
      BY <1>0, <2>2, <3>1, Apart
  <2>4. PICK r0 \in start[pl] : Becomes(S, r0) = Stock(f)
    BY <1>1, ImageIs
  <2>5. r0 = Stock(f) /\ "gamefixes" \notin S
    BY <2>4, Origins
  <2>6. ASSUME NEW run \in start[pl] PROVE run = Stock(f)
    <3>1. CASE run \notin {Stock(g) : g \in Fixes}
      <4>1. start[pl] = {run}
        BY <3>1, Alone
      <4> QED
        BY <2>5, <4>1
    <3>2. CASE run \in {Stock(g) : g \in Fixes}
      <4>1. PICK g \in Fixes : run = Stock(g)
        BY <3>2
      <4>2. Becomes(S, run) = Stock(g)
        BY <2>5, <4>1, Outcomes
      <4>3. Stock(g) \in rom[pl]
        BY <4>2, ImageIs
      <4>4. buffer[pl] = {Patched(g)}
        BY <4>3 DEF FixedFor, ToApply, Missing, Sites
      <4>5. g = f
        BY <2>2, <4>4, Kinds
      <4> QED
        BY <4>1, <4>5
    <3> QED
      BY <3>1, <3>2
  <2>7. Image(T)[pl] = {Patched(f)}
    <3>1. Becomes(T, Stock(f)) = Patched(f)
      BY Outcomes
    <3>2. start[pl] = {Stock(f)}
      BY <2>5, <2>6
    <3> HIDE DEF T
    <3>3. Image(T)[pl] = {Becomes(T, run) : run \in start[pl]}
      BY ImageIs
    <3> QED
      BY <3>1, <3>2, <3>3
  <2> QED
    BY <2>3, <2>7
\* A place without one.
<1>2. ASSUME NEW pl \in Body, \A f \in Fixes : Stock(f) \notin rom[pl] PROVE Image(T)[pl] = W[pl]
  <2>1. buffer[pl] = rom[pl]
    BY <1>2, Apart DEF FixedFor, ToApply, Sites
  <2>2. CASE \E c \in Calls : Call(c) \in rom[pl]
    <3>1. PICK d \in Calls : Call(d) \in rom[pl] /\ W[pl] = {Retired(d)}
      BY <1>0, <2>1, <2>2, Apart DEF Sites
    <3>2. PICK run \in start[pl] : Becomes(S, run) = Call(d)
      BY <3>1, ImageIs
    <3>3. run = Call(d) /\ run \notin {Stock(g) : g \in Fixes}
      BY <3>2, Origins, Kinds
    <3>4. Image(T)[pl] = {Becomes(T, Call(d))}
      BY <3>3, Alone
    <3>5. Becomes(T, Call(d)) = Retired(d)
      BY Outcomes
    <3> QED
      BY <3>1, <3>4, <3>5
  <2>3. CASE \A c \in Calls : Call(c) \notin rom[pl]
    <3>1. W[pl] = rom[pl]
      BY <1>0, <2>1, <2>3, Apart DEF Sites
    <3>2. ASSUME NEW run \in start[pl] PROVE Becomes(T, run) = Becomes(S, run)
      <4>1. Becomes(S, run) \in rom[pl]
        BY ImageIs
      <4>2. CASE run \notin {Stock(f) : f \in Fixes} /\ run \notin {Call(c) : c \in Calls}
        BY <4>2, OneMore
      <4>3. CASE run \in {Stock(f) : f \in Fixes} \/ run \in {Call(c) : c \in Calls}
        <5>1. "gamefixes" \in S
          BY <1>2, <2>3, <4>1, <4>3, Outcomes
        <5>2. T = S
          BY <5>1
        <5> QED
          BY <5>2
      <4> QED
        BY <4>2, <4>3
    <3> HIDE DEF T
    <3>3. Image(T)[pl] = Image(S)[pl]
      BY <3>2, BodyKept
    <3> QED
      BY <3>1, <3>3
  <2> QED
    BY <2>2, <2>3
<1>3. ASSUME NEW pl \in Place, pl \notin Body PROVE Image(T)[pl] = W[pl]
  <2>1. /\ "spcfast" \in T <=> "spcfast" \in S
        /\ "repeatload" \in T <=> "repeatload" \in S
        /\ "prefight" \in T <=> "prefight" \in S
    OBVIOUS
  <2>2. W[pl] = rom[pl]
    BY <1>0, <1>3 DEF FixedFor, Sites
  <2> HIDE DEF T
  <2> QED
    BY <1>3, <2>1, <2>2, ImageIs
<1>4. Image(T) = [pl \in Place |-> Image(T)[pl]]
  BY ImageIs
<1>5. \A pl \in Place : Image(T)[pl] = W[pl]
  BY <1>1, <1>2, <1>3
<1> HIDE DEF T
<1>6. Image(T) = W
  BY <1>0, <1>4, <1>5, SameCart
<1> QED
  BY <1>6 DEF T, W

-----------------------------------------------------------------------------
(* The invariant *)

\* The cartridge is the image of what has been accepted; inside gamefixes.apply
\* the copy is what the fixes so far make of it, each at its one place.
ChainInv ==
  /\ ppc \in {"idle", "fix"} /\ start \in Carts /\ rom = Image(applied)
  /\ ppc = "idle" => buffer = rom
  /\ ppc = "fix" => /\ todo \subseteq ToApply /\ FixedFor(ToApply \ todo)
                   /\ \A f \in ToApply : \E pl : Sites(rom, Stock(f)) = {pl}
  /\ start \in Retail => last = "done"

\* Found once, found in one place.
LEMMA OnePlace ==
  ASSUME NEW r, NEW run
  PROVE  /\ Once(r, run) <=> \E pl : Sites(r, run) = {pl}
         /\ Cardinality(Sites(r, run)) \in Nat
         /\ Missing(r, run) <=> Cardinality(Sites(r, run)) = 0
<1>1. IsFiniteSet(Sites(r, run))
  <2>1. Sites(r, run) \in SUBSET Body /\ IsFiniteSet(Body)
    BY ChainAssumption DEF Sites
  <2> QED
    BY <2>1, FS_Subset
<1> DEFINE X == Sites(r, run)
<1> HIDE DEF X
<1>2. IsFiniteSet(X)
  BY <1>1 DEF X
<1>3. /\ Cardinality(X) = 1 <=> \E pl : X = {pl}
      /\ Cardinality(X) \in Nat
      /\ Cardinality(X) = 0 <=> X = {}
  BY <1>2, FS_Singleton, FS_CardinalityType, FS_EmptySet
<1> QED
  BY <1>3 DEF X, Once, Missing

\* The image depends on the first cartridge only.
LEMMA SameStart == ASSUME start' = start PROVE Image(applied)' = Image(applied')
  BY DEF Image, Becomes, Missing, Sites

\* A patch that returns the image of one more patch keeps the invariant.
LEMMA ReturnsKeeps ==
  ASSUME ChainInv, NEW patch, NEW new, NEW over, Returns(patch, new, over),
         new = Image(applied \cup {patch})
  PROVE  ChainInv'
<1>1. rom' = Image(applied') /\ start' = start /\ ppc' = "idle" /\ last' = "done"
      /\ buffer' = rom'
  BY DEF Returns
<1>2. rom' = Image(applied)'
  BY <1>1, SameStart
<1> QED
  BY <1>1, <1>2 DEF ChainInv

\* So does a refusal, but of a retail cartridge.
LEMMA RefusesKeeps ==
  ASSUME ChainInv, Refuses, start \notin Retail
  PROVE  ChainInv'
<1>1. rom' = rom /\ start' = start /\ ppc' = "idle" /\ applied' = applied /\ buffer' = rom
  BY DEF Refuses
<1>2. rom' = Image(applied)'
  BY <1>1, SameStart DEF ChainInv
<1> QED
  BY <1>1, <1>2 DEF ChainInv

\* A patch that has its sites already, finds them, or refuses.
LEMMA ApplyKeeps ==
  ASSUME ChainInv, NEW patch, NEW already, NEW fits, NEW new, NEW over,
         Apply(patch, already, fits, new, over),
         already => rom = Image(applied \cup {patch}),
         new = Image(applied \cup {patch}),
         start \in Retail => already \/ fits
  PROVE  ChainInv'
  BY ReturnsKeeps, RefusesKeeps DEF Apply

\* Writing what is there changes nothing.
LEMMA Unwritten ==
  ASSUME NEW r, r = [pl \in Place |-> r[pl]], NEW places, NEW run,
         \A pl \in places : r[pl] = {run}
  PROVE  Written(r, places, run) = r
<1> DEFINE W == Written(r, places, run)
<1>1. W = [pl \in Place |-> W[pl]] /\ \A pl \in Place : W[pl] = r[pl]
  BY DEF Written
<1> HIDE DEF W
<1>2. W = r
  BY <1>1, SameCart
<1> QED
  BY <1>2 DEF W

\* What the invariant says of the cartridge.
LEMMA Facts ==
  ASSUME ChainInv
  PROVE  /\ rom = [pl \in Place |-> rom[pl]] /\ Fitting(start)
         /\ start \in Retail => Patchable(start)
  BY ImageIs, ChainAssumption DEF ChainInv

\* Where the runs are that the patches look for.
LEMMA SitesNow ==
  ASSUME ChainInv
  PROVE  /\ Sites(rom, Gate) = IF "shinakuma" \in applied THEN {} ELSE Sites(start, Gate)
         /\ \A f \in Fixes : Sites(rom, Stock(f)) =
              IF "gamefixes" \in applied THEN {} ELSE Sites(start, Stock(f))
         /\ \A c \in Calls : Sites(rom, Call(c)) =
              IF "gamefixes" \in applied THEN {} ELSE Sites(start, Call(c))
         /\ Sites(rom, Builder) = Sites(start, Builder)
         /\ Sites(rom, CallsBuilder) =
              IF "prefight" \in applied /\ ~Missing(start, Builder) THEN {}
              ELSE Sites(start, CallsBuilder)
<1>1. \A pl \in Body : rom[pl] = {Becomes(applied, run) : run \in start[pl]}
  BY ImageIs DEF ChainInv
<1>2. ASSUME NEW pl \in Body
      PROVE  Gate \in rom[pl] <=> Gate \in start[pl] /\ "shinakuma" \notin applied
  BY <1>1, Outcomes, Origins
<1>3. ASSUME NEW pl \in Body, NEW f \in Fixes
      PROVE  Stock(f) \in rom[pl] <=> Stock(f) \in start[pl] /\ "gamefixes" \notin applied
  BY <1>1, Outcomes, Origins
<1>4. ASSUME NEW pl \in Body, NEW c \in Calls
      PROVE  Call(c) \in rom[pl] <=> Call(c) \in start[pl] /\ "gamefixes" \notin applied
  BY <1>1, Outcomes, Origins
<1>5. ASSUME NEW pl \in Body
      PROVE  CallsBuilder \in rom[pl] <=> /\ CallsBuilder \in start[pl]
                                          /\ "prefight" \notin applied \/ Missing(start, Builder)
  BY <1>1, Outcomes, Origins
<1>6. Sites(rom, Builder) = Sites(start, Builder)
  BY BuilderStays DEF ChainInv
<1>7. Sites(rom, Gate) = IF "shinakuma" \in applied THEN {} ELSE Sites(start, Gate)
  BY <1>2 DEF Sites
<1>8. ASSUME NEW f \in Fixes
      PROVE  Sites(rom, Stock(f)) = IF "gamefixes" \in applied THEN {} ELSE Sites(start, Stock(f))
  BY <1>3 DEF Sites
<1>9. ASSUME NEW c \in Calls
      PROVE  Sites(rom, Call(c)) = IF "gamefixes" \in applied THEN {} ELSE Sites(start, Call(c))
  BY <1>4 DEF Sites
<1>10. Sites(rom, CallsBuilder) =
         IF "prefight" \in applied /\ ~Missing(start, Builder) THEN {}
         ELSE Sites(start, CallsBuilder)
  BY <1>5 DEF Sites
<1> QED
  BY <1>6, <1>7, <1>8, <1>9, <1>10

\* Where a fix has been made or was there before.
LEMMA PatchedSites ==
  ASSUME ChainInv, NEW f \in Fixes
  PROVE  /\ Sites(rom, Patched(f)) \subseteq Sites(start, Patched(f)) \cup Sites(start, Stock(f))
         /\ "gamefixes" \in applied => Sites(start, Stock(f)) \subseteq Sites(rom, Patched(f))
<1>1. \A pl \in Body : rom[pl] = {Becomes(applied, run) : run \in start[pl]}
  BY ImageIs DEF ChainInv
<1>2. ASSUME NEW run, Becomes(applied, run) = Patched(f)
      PROVE  run = Patched(f) \/ run = Stock(f)
  <2>1. CASE run = Gate
    BY <1>2, <2>1, Outcomes, Kinds
  <2>2. CASE run = CallsBuilder
    BY <1>2, <2>2, Outcomes, Kinds
  <2>3. CASE \E g \in Fixes : run = Stock(g)
    <3>1. PICK g \in Fixes : run = Stock(g)
      BY <2>3
    <3>2. Becomes(applied, run) = Patched(g) \/ Becomes(applied, run) = Stock(g)
      BY <3>1, Outcomes
    <3>3. g = f
      BY <1>2, <3>2, Kinds, Zenon
    <3> QED
      BY <3>1, <3>3
  <2>4. CASE \E c \in Calls : run = Call(c)
    <3>1. PICK c \in Calls : run = Call(c)
      BY <2>4
    <3>2. Becomes(applied, run) = Retired(c) \/ Becomes(applied, run) = Call(c)
      BY <3>1, Outcomes
    <3>3. FALSE
      BY <1>2, <3>2, Kinds, Zenon
    <3> QED
      BY <3>3
  <2>5. CASE /\ run \notin {Gate, CallsBuilder}
             /\ run \notin {Stock(g) : g \in Fixes} /\ run \notin {Call(c) : c \in Calls}
    BY <1>2, <2>5, Outcomes
  <2> QED
    BY <2>1, <2>2, <2>3, <2>4, <2>5, RunCases
<1>3. Sites(rom, Patched(f)) \subseteq Sites(start, Patched(f)) \cup Sites(start, Stock(f))
  BY <1>1, <1>2 DEF Sites
<1>4. "gamefixes" \in applied => Sites(start, Stock(f)) \subseteq Sites(rom, Patched(f))
  BY <1>1, Outcomes DEF Sites
<1> QED
  BY <1>3, <1>4

-----------------------------------------------------------------------------
(* The steps *)

\* spcfast.apply writes the driver, or finds it written, or meets another.
LEMMA SpcStep == ASSUME ChainInv, SpcFast PROVE ChainInv'
<1> DEFINE already == \A pl \in Driver : rom[pl] = {Fast}
           fits == \A n \in Probed : rom[<<"driver", n>>] = {Original}
           new == Written(rom, Driver, Fast)
<1>1. new = Image(applied \cup {"spcfast"})
  BY SpcImage DEF ChainInv
<1>2. already => rom = new
  BY Facts, Unwritten
<1>3. ASSUME start \in Retail PROVE already \/ fits
  <2>1. Patchable(start)
    BY <1>3, Facts
  <2>2. \A pl \in Driver : rom[pl] = IF "spcfast" \in applied THEN {Fast} ELSE start[pl]
    <3>1. rom = Image(applied)
      BY DEF ChainInv
    <3>2. \A pl \in Driver :
            Image(applied)[pl] = IF "spcfast" \in applied THEN {Fast} ELSE start[pl]
      BY ImageIs, Zenon
    <3> QED
      BY <3>1, <3>2
  <2>3. \A n \in Probed : <<"driver", n>> \in Driver
    BY ChainAssumption DEF Driver
  <2> QED
    BY <2>1, <2>2, <2>3 DEF Patchable
<1>4. Apply("spcfast", already, fits, new, new)
  BY DEF SpcFast, Stamped
<1> HIDE DEF already, fits, new
<1> QED
  BY <1>1, <1>2, <1>3, <1>4, ApplyKeeps

\* shinakuma.apply opens the one gate, or finds it open.
LEMMA ShinStep == ASSUME ChainInv, ShinAkuma PROVE ChainInv'
<1> DEFINE already == Missing(rom, Gate) /\ ~Missing(rom, Open)
           fits == Once(rom, Gate)
           new == Written(rom, Sites(rom, Gate), Open)
<1>1. new = Image(applied \cup {"shinakuma"})
  BY Facts, ShinImage DEF ChainInv
<1>2. already => rom = new
  <2>1. ASSUME Sites(rom, Gate) = {} PROVE rom = Written(rom, Sites(rom, Gate), Open)
    BY <2>1, Facts, Unwritten
  <2> QED
    BY <2>1 DEF Missing
<1>3. ASSUME start \in Retail PROVE already \/ fits
  <2>1. Once(start, Gate)
    BY <1>3, Facts DEF Patchable
  <2>2. CASE "shinakuma" \notin applied
    <3>1. Sites(rom, Gate) = Sites(start, Gate)
      BY <2>2, SitesNow
    <3> QED
      BY <2>1, <3>1 DEF Once
  <2>3. CASE "shinakuma" \in applied
    <3>1. Missing(rom, Gate)
      BY <2>3, SitesNow DEF Missing
    <3>2. PICK pl : Sites(start, Gate) = {pl}
      BY <2>1, OnePlace
    <3>3. pl \in Body /\ Gate \in start[pl]
      BY <3>2 DEF Sites
    <3>4. rom[pl] = {Becomes(applied, run) : run \in start[pl]}
      BY <3>3, ImageIs DEF ChainInv
    <3>5. Open \in rom[pl]
      BY <2>3, <3>3, <3>4, Outcomes
    <3> QED
      BY <3>1, <3>3, <3>5 DEF Missing, Sites
  <2> QED
    BY <2>2, <2>3
<1>4. Apply("shinakuma", already, fits, new, new)
  BY DEF ShinAkuma, Stamped
<1> HIDE DEF already, fits, new
<1> QED
  BY <1>1, <1>2, <1>3, <1>4, ApplyKeeps

\* repeatload.apply needs the half of the filler that prefight.apply leaves.
LEMMA RepeatStep == ASSUME ChainInv, RepeatLoad PROVE ChainInv'
<1> DEFINE already == rom[Hook] = {Hooked} /\ rom[<<"filler", 2>>] = {RepeatRoutine}
           fits == rom[Hook] = {Replaced} /\ \A pl \in RepeatFiller : rom[pl] = {Free}
           new == Written(Written(rom, {<<"filler", 2>>}, RepeatRoutine), {Hook}, Hooked)
<1>1. new = Image(applied \cup {"repeatload"})
  BY RepeatImage DEF ChainInv
<1>2. ASSUME already PROVE rom = new
  <2>1. Written(rom, {<<"filler", 2>>}, RepeatRoutine) = rom
    BY <1>2, Facts, Unwritten
  <2>2. Written(rom, {Hook}, Hooked) = rom
    BY <1>2, Facts, Unwritten
  <2> QED
    BY <2>1, <2>2
<1>3. ASSUME start \in Retail PROVE already \/ fits
  <2>1. Patchable(start)
    BY <1>3, Facts
  <2>2. /\ rom[Hook] = IF "repeatload" \in applied THEN {Hooked} ELSE start[Hook]
        /\ rom[<<"filler", 2>>] =
             IF "repeatload" \in applied THEN {RepeatRoutine} ELSE start[<<"filler", 2>>]
        /\ rom[<<"filler", 3>>] = start[<<"filler", 3>>]
    <3>1. /\ <<"filler", 3>> \in Filler /\ <<"filler", 3>> # <<"filler", 2>>
          /\ <<"filler", 3>> # <<"filler", 0>>
      BY DEF Filler
    <3> QED
      BY <3>1, Apart, ImageIs DEF ChainInv
  <2>3. start[<<"filler", 2>>] = {Free} /\ start[<<"filler", 3>>] = {Free} /\ start[Hook] = {Replaced}
    BY <2>1 DEF Patchable, Filler
  <2> QED
    BY <2>2, <2>3 DEF RepeatFiller
<1>4. Apply("repeatload", already, fits, new, new)
  BY DEF RepeatLoad, Stamped
<1> HIDE DEF already, fits, new
<1> QED
  BY <1>1, <1>2, <1>3, <1>4, ApplyKeeps

\* prefight.apply finds its callers whatever the fixes have written.
LEMMA PrefightStep == ASSUME ChainInv, Prefight PROVE ChainInv'
<1> DEFINE fits == Once(rom, Builder) /\ Callers(rom) # {} /\ PrefightFree
           new == Written(Written(rom, {<<"filler", 0>>}, PrefightRoutine),
                          Callers(rom), CallsRoutine)
<1>1. new = Image(applied \cup {"prefight"})
  BY Facts, PrefightImage DEF ChainInv
<1>2. ASSUME PrefightPatched PROVE rom = new
  <2>1. Written(rom, {<<"filler", 0>>}, PrefightRoutine) = rom
    BY <1>2, Facts, Unwritten DEF PrefightPatched
  <2>2. Callers(rom) = {}
    BY <1>2 DEF PrefightPatched
  <2>3. Written(rom, {}, CallsRoutine) = rom
    BY Facts, Unwritten
  <2> QED
    BY <2>1, <2>2, <2>3
<1>3. ASSUME start \in Retail PROVE PrefightPatched \/ fits
  <2>1. Patchable(start)
    BY <1>3, Facts
  <2>2. Once(rom, Builder) /\ ~Missing(start, Builder) /\ ~Missing(rom, Builder)
    BY <2>1, SitesNow, OnePlace DEF Patchable, Once, Missing
  <2>3. CASE "prefight" \in applied
    <3>1. rom[<<"filler", 0>>] = {PrefightRoutine}
      BY <2>3, ImageIs DEF ChainInv
    <3>2. Callers(rom) = {}
      BY <2>2, <2>3, SitesNow DEF Callers
    <3> QED
      BY <2>2, <3>1, <3>2 DEF PrefightPatched
  <2>4. CASE "prefight" \notin applied
    <3>1. Callers(rom) # {}
      BY <2>1, <2>2, <2>4, SitesNow DEF Callers, Patchable, Missing
    <3>2. rom[<<"filler", 0>>] = start[<<"filler", 0>>]
      BY <2>4, ImageIs DEF ChainInv
    <3>3. rom[<<"filler", 1>>] = start[<<"filler", 1>>]
      <4>1. /\ <<"filler", 1>> \in Filler /\ <<"filler", 1>> # <<"filler", 2>>
            /\ <<"filler", 1>> # <<"filler", 0>>
        BY DEF Filler
      <4> QED
        BY <4>1, Apart, ImageIs DEF ChainInv
    <3>4. start[<<"filler", 0>>] = {Free} /\ start[<<"filler", 1>>] = {Free}
      BY <2>1 DEF Patchable, Filler
    <3> QED
      BY <2>2, <3>1, <3>2, <3>3, <3>4 DEF PrefightFree, PrefightFiller
  <2> QED
    BY <2>3, <2>4
<1>4. Apply("prefight", PrefightPatched, fits, new, stamp)
  BY DEF Prefight
<1> HIDE DEF fits, new
<1> QED
  BY <1>1, <1>2, <1>3, <1>4, ApplyKeeps

\* The survey takes a retail cartridge, whatever has been applied to it.
LEMMA RetailSurvey == ASSUME ChainInv, start \in Retail PROVE ~SurveyRaises /\ ~Absent
<1>1. Patchable(start)
  BY Facts
<1>2. ASSUME NEW f \in Fixes PROVE Cardinality(Sites(rom, Stock(f))) <= 1
  <2>1. Missing(rom, Stock(f)) \/ Sites(rom, Stock(f)) = Sites(start, Stock(f))
    BY SitesNow DEF Missing
  <2>2. Missing(start, Stock(f)) \/ Once(start, Stock(f))
    BY <1>1 DEF Patchable
  <2>3. Missing(rom, Stock(f)) \/ Once(rom, Stock(f))
    BY <2>1, <2>2 DEF Missing, Once
  <2> QED
    BY <2>3, OnePlace DEF Once
<1>3. ASSUME NEW f \in Fixes PROVE Cardinality(Sites(rom, Patched(f))) <= 1
  <2>1. \E pl : Sites(rom, Patched(f)) \subseteq {pl}
    <3>1. Sites(rom, Patched(f)) \subseteq Sites(start, Patched(f)) \cup Sites(start, Stock(f))
      BY PatchedSites
    <3>2. CASE Missing(start, Stock(f))
      <4>1. Missing(start, Patched(f)) \/ Once(start, Patched(f))
        BY <1>1 DEF Patchable
      <4> QED
        BY <3>1, <3>2, <4>1, OnePlace DEF Missing
    <3>3. CASE Once(start, Stock(f)) /\ Missing(start, Patched(f))
      BY <3>1, <3>3, OnePlace DEF Missing
    <3> QED
      BY <1>1, <3>2, <3>3 DEF Patchable
  <2>2. Missing(rom, Patched(f)) \/ \E pl : Sites(rom, Patched(f)) = {pl}
    BY <2>1 DEF Missing
  <2> QED
    BY <2>2, OnePlace DEF Once
<1>4. ASSUME NEW c \in Calls PROVE rom[Target(c)] = {Rtl}
  <2>1. rom[Target(c)] = start[Target(c)]
    BY Apart, ImageIs DEF ChainInv
  <2> QED
    BY <1>1, <2>1 DEF Patchable
<1>5. PICK f \in Fixes : ~Missing(start, Stock(f))
  BY <1>1 DEF Patchable
<1>6. ~Missing(rom, Stock(f)) \/ ~Missing(rom, Patched(f))
  BY <1>5, SitesNow, PatchedSites DEF Missing
<1>7. ~SurveyRaises
  <2>1. ASSUME NEW g \in Fixes
        PROVE  /\ ~(Cardinality(Sites(rom, Stock(g))) > 1)
               /\ ~(Cardinality(Sites(rom, Patched(g))) > 1)
    BY <1>2, <1>3, OnePlace
  <2> QED
    BY <1>4, <2>1 DEF SurveyRaises
<1> QED
  BY <1>6, <1>7 DEF Absent

\* Fixes none, the copy is the cartridge.
LEMMA NoneFixed == ASSUME ChainInv, buffer = rom PROVE FixedFor({})
  BY Facts DEF FixedFor

\* gamefixes.survey refuses, finds nothing left to do, or starts the copy.
LEMMA SurveyStep == ASSUME ChainInv, Survey PROVE ChainInv'
<1>1. CASE (SurveyRaises \/ Absent) /\ Refuses
  BY <1>1, RetailSurvey, RefusesKeeps
<1>2. CASE /\ ToApply = {} /\ ToRetire = {}
           /\ Returns("gamefixes", rom, stamp)
  <2>1. buffer = rom
    BY DEF ChainInv, Survey
  <2>2. FixedFor(ToApply)
    BY <1>2, <2>1, NoneFixed
  <2>3. Image(applied \cup {"gamefixes"}) = RetiredIn(rom)
    BY <2>1, <2>2, Facts, FixImage DEF ChainInv
  <2>4. RetiredIn(rom) = rom
    <3>1. \A pl \in Place : RetiredIn(rom)[pl] = rom[pl]
      BY <1>2 DEF RetiredIn, ToRetire, Missing
    <3>2. RetiredIn(rom) = [pl \in Place |-> RetiredIn(rom)[pl]]
      BY DEF RetiredIn
    <3> DEFINE W == RetiredIn(rom)
    <3> HIDE DEF W
    <3>3. W = rom
      BY <3>1, <3>2, Facts, SameCart DEF W
    <3> QED
      BY <3>3 DEF W
  <2> QED
    BY <1>2, <2>3, <2>4, ReturnsKeeps
<1>3. CASE /\ ~SurveyRaises /\ ToApply \cup ToRetire # {}
           /\ ppc' = "fix" /\ todo' = ToApply /\ buffer' = rom
           /\ UNCHANGED <<rom, stamp, last, start, applied>>
  <2>1. ToApply' = ToApply /\ ToApply \ ToApply = {}
    BY <1>3 DEF ToApply, Missing, Sites
  <2>2. FixedFor({})'
    BY <1>3, Facts DEF FixedFor
  <2>3. ASSUME NEW f \in ToApply PROVE \E pl : Sites(rom, Stock(f)) = {pl}
    <3>1. f \in Fixes /\ ~Missing(rom, Stock(f))
      BY DEF ToApply
    <3>2. Cardinality(Sites(rom, Stock(f))) # 0
      BY <3>1, OnePlace
    <3>3. ~(Cardinality(Sites(rom, Stock(f))) > 1)
      BY <1>3, <3>1 DEF SurveyRaises
    <3>4. Cardinality(Sites(rom, Stock(f))) \in Nat
      BY OnePlace
    <3>5. Once(rom, Stock(f))
      BY <3>2, <3>3, <3>4 DEF Once
    <3> QED
      BY <3>5, OnePlace
  <2>4. rom' = Image(applied)'
    BY <1>3, SameStart DEF ChainInv
  <2>5. \A f \in ToApply' : \E pl : Sites(rom', Stock(f)) = {pl}
    BY <1>3, <2>1, <2>3
  <2>6. todo' \subseteq ToApply' /\ FixedFor(ToApply \ todo)'
    BY <1>3, <2>1, <2>2
  <2> QED
    BY <1>3, <2>4, <2>5, <2>6 DEF ChainInv
<1> QED
  BY <1>1, <1>2, <1>3 DEF Survey

\* The fix that is next, found again in the copy, is where the survey saw it.
LEMMA FixStep == ASSUME ChainInv, FixNext PROVE ChainInv'
<1> DEFINE f == CHOOSE f \in todo : \A g \in todo : f <= g
           done == ToApply \ todo
<1>1. /\ ppc = "fix" /\ todo \subseteq ToApply /\ FixedFor(done)
      /\ \A g \in ToApply : \E pl : Sites(rom, Stock(g)) = {pl}
  BY DEF ChainInv, FixNext
<1>2. f \in todo
  <2>1. todo \in SUBSET Nat /\ todo # {}
    BY <1>1, ChainAssumption DEF FixNext, ToApply
  <2>2. \E m \in todo : \A k \in todo : m <= k
    BY <2>1, LeastNatural
  <2> QED
    BY <2>2
<1>3. \/ /\ Once(buffer, Stock(f))
         /\ buffer' = Written(buffer, Sites(buffer, Stock(f)), Patched(f))
         /\ todo' = todo \ {f}
         /\ UNCHANGED <<rom, stamp, ppc, last, start, applied>>
      \/ ~Once(buffer, Stock(f)) /\ Refuses
  BY DEF FixNext
<1> HIDE DEF f
<1>4. f \in ToApply /\ f \in Fixes /\ f \notin done
  BY <1>1, <1>2 DEF ToApply
<1>5. ASSUME NEW pl \in Body, \A g \in done : pl \notin Sites(rom, Stock(g))
      PROVE  buffer[pl] = rom[pl]
  BY <1>1, <1>5, Apart DEF FixedFor
<1>6. ASSUME NEW pl \in Body, NEW g \in done, pl \in Sites(rom, Stock(g))
      PROVE  buffer[pl] = {Patched(g)} /\ pl \notin Sites(buffer, Stock(f))
  <2>1. buffer[pl] = {Patched(g)}
    BY <1>1, <1>6 DEF FixedFor
  <2> QED
    BY <2>1, Kinds DEF Sites
<1>7. Sites(buffer, Stock(f)) \subseteq Sites(rom, Stock(f))
  BY <1>5, <1>6 DEF Sites
<1>8. CASE /\ Once(buffer, Stock(f))
           /\ buffer' = Written(buffer, Sites(buffer, Stock(f)), Patched(f))
           /\ todo' = todo \ {f}
           /\ UNCHANGED <<rom, stamp, ppc, last, start, applied>>
  <2>1. Sites(buffer, Stock(f)) = Sites(rom, Stock(f))
    <3>1. PICK p1 : Sites(buffer, Stock(f)) = {p1}
      BY <1>8, OnePlace
    <3>2. PICK p2 : Sites(rom, Stock(f)) = {p2}
      BY <1>1, <1>4
    <3> QED
      BY <1>7, <3>1, <3>2
  <2>2. ToApply' = ToApply /\ (ToApply \ todo)' = done \cup {f}
    <3>1. ToApply' = ToApply
      BY <1>8 DEF ToApply, Missing, Sites
    <3> QED
      BY <1>4, <1>8, <3>1
  <2>3. /\ buffer' = [pl \in Place |-> buffer'[pl]]
        /\ \A pl \in Place : buffer'[pl] = IF pl \in Sites(rom, Stock(f)) THEN {Patched(f)}
                                           ELSE buffer[pl]
    BY <1>8, <2>1 DEF Written
  <2>4. ASSUME NEW g \in done \cup {f}, NEW pl \in Sites(rom, Stock(g))
        PROVE  buffer'[pl] = {Patched(g)}
    <3>1. pl \in Body /\ pl \in Place
      BY Apart DEF Sites
    <3>2. CASE g = f
      BY <2>3, <2>4, <3>1, <3>2
    <3>3. CASE g \in done
      <4>1. buffer[pl] = {Patched(g)} /\ pl \notin Sites(rom, Stock(f))
        BY <1>6, <2>1, <2>4, <3>1, <3>3
      <4> QED
        BY <2>3, <3>1, <4>1
    <3> QED
      BY <3>2, <3>3
  <2>5. ASSUME NEW pl \in Place, \A g \in done \cup {f} : pl \notin Sites(rom, Stock(g))
        PROVE  buffer'[pl] = rom[pl]
    <3>1. buffer[pl] = rom[pl]
      BY <1>1, <2>5 DEF FixedFor
    <3> QED
      BY <2>3, <2>5, <3>1
  <2>6. FixedFor(ToApply \ todo)'
    <3>1. rom' = rom
      BY <1>8
    <3> QED
      BY <2>2, <2>3, <2>4, <2>5, <3>1 DEF FixedFor, Sites
  <2>7. rom' = Image(applied)'
    BY <1>8, SameStart DEF ChainInv
  <2>8. \A g \in ToApply' : \E pl : Sites(rom', Stock(g)) = {pl}
    BY <1>1, <1>8, <2>2
  <2>9. todo' \subseteq ToApply' /\ ppc' = "fix"
    BY <1>1, <1>8, <2>2
  <2> QED
    BY <1>8, <2>6, <2>7, <2>8, <2>9 DEF ChainInv
<1>9. CASE ~Once(buffer, Stock(f)) /\ Refuses
  <2>1. ASSUME start \in Retail PROVE FALSE
    <3>1. PICK p : Sites(rom, Stock(f)) = {p}
      BY <1>1, <1>4
    <3>2. ASSUME NEW g \in done PROVE p \notin Sites(rom, Stock(g))
      <4>1. g \in Fixes /\ g # f
        BY <1>4 DEF ToApply
      <4>2. Sites(start, Stock(f)) \cap Sites(start, Stock(g)) = {}
        BY <1>4, <2>1, <4>1, Facts DEF Patchable
      <4>3. Sites(rom, Stock(f)) \subseteq Sites(start, Stock(f))
            /\ Sites(rom, Stock(g)) \subseteq Sites(start, Stock(g))
        BY <1>4, <4>1, SitesNow
      <4> QED
        BY <3>1, <4>2, <4>3
    <3>3. p \in Body /\ Stock(f) \in rom[p]
      BY <3>1 DEF Sites
    <3>4. p \in Sites(buffer, Stock(f))
      BY <1>5, <3>2, <3>3 DEF Sites
    <3>5. Sites(buffer, Stock(f)) = {p}
      BY <1>7, <3>1, <3>4
    <3> QED
      BY <1>9, <3>5, OnePlace
  <2> QED
    BY <1>9, <2>1, RefusesKeeps
<1> QED
  BY <1>3, <1>8, <1>9

\* gamefixes.apply ends with the copy in place of the cartridge.
LEMMA RetireStep == ASSUME ChainInv, Retire PROVE ChainInv'
<1>1. FixedFor(ToApply) /\ rom = Image(applied)
  <2>1. ToApply \ todo = ToApply
    BY DEF Retire
  <2> QED
    BY <2>1 DEF ChainInv, Retire
<1>2. Image(applied \cup {"gamefixes"}) = RetiredIn(buffer)
  BY <1>1, Facts, FixImage
<1>3. Returns("gamefixes", RetiredIn(buffer), RetiredIn(buffer))
  BY DEF Retire
<1> QED
  BY <1>2, <1>3, ReturnsKeeps

-----------------------------------------------------------------------------
\* With nothing applied the image is the first cartridge.
LEMMA ChainInvInit == ChainInit => ChainInv
<1> SUFFICES ASSUME ChainInit PROVE ChainInv
  OBVIOUS
<1>1. ASSUME NEW pl \in Body PROVE Image({})[pl] = start[pl]
  <2>1. \A run : Becomes({}, run) = run
    BY DEF Becomes
  <2>2. Image({})[pl] = {Becomes({}, run) : run \in start[pl]}
    BY ImageIs
  <2> QED
    BY <2>1, <2>2
<1>2. \A pl \in Place : pl \notin Body => Image({})[pl] = start[pl]
  BY ImageIs
<1>3. start = [pl \in Place |-> start[pl]]
  BY ChainAssumption DEF ChainInit, Fitting
<1>4. start = Image({})
  BY <1>1, <1>2, <1>3, ImageIs, SameCart
<1> QED
  BY <1>4 DEF ChainInit, ChainInv

\* Whatever the order and the repetitions, the cartridge is what the accepted
\* patches make of the first one, inside gamefixes.apply also the copy.
THEOREM ChainInvariant == ChainSpec => []ChainInv
<1>1. ChainInv /\ [ChainNext]_chainVars => ChainInv'
  <2> SUFFICES ASSUME ChainInv, [ChainNext]_chainVars PROVE ChainInv'
    OBVIOUS
  <2>1. CASE UNCHANGED chainVars
    <3>1. Image(applied)' = Image(applied)
      BY <2>1 DEF chainVars, Image, Becomes, Missing, Sites
    <3>2. FixedFor(ToApply \ todo)' = FixedFor(ToApply \ todo) /\ ToApply' = ToApply
      BY <2>1 DEF chainVars, FixedFor, ToApply, Missing, Sites
    <3> QED
      BY <2>1, <3>1, <3>2 DEF chainVars, ChainInv
  <2> QED
    BY <2>1, SpcStep, ShinStep, RepeatStep, PrefightStep, SurveyStep, FixStep, RetireStep DEF ChainNext
<1> QED
  BY <1>1, ChainInvInit, PTL DEF ChainSpec

\* No patch undoes or bars another: the order of the patches does not matter,
\* and a retail cartridge takes every one of them in every order.
THEOREM OrdersAreFree == ChainSpec => []OrderFree
<1>1. ChainInv => OrderFree
  BY DEF ChainInv, OrderFree
<1> QED
  BY <1>1, ChainInvariant, PTL

-----------------------------------------------------------------------------
(* The packer. *)

File == [kind : {"none", "cart", "part", "bypass", "image"}, of : Version]
Entry == [region : Region, file : File]

Types ==
  /\ tree \in [Region -> Version] /\ sources \in [Region -> Version]
  /\ edits \in Version /\ dumps \subseteq Region
  /\ work \in [Region -> File] /\ asm \in [Region -> File] /\ dist \in [Region -> File]
  /\ manifest \in Seq(Entry) /\ lines \in Seq(Entry) /\ image \in File
  /\ phase \in {"idle", "check", "gate", "stage", "copy", "patch", "collect", "build", "manifest"}
  /\ wanted \in Seq(Name)
  /\ at \in Nat /\ code \in Int

\* A run that is past its checks is about regions the tree has, and at one.
Placed ==
  phase # "idle" =>
    /\ at \in 1 .. Len(wanted)
    /\ phase # "check" => \A k \in 1 .. Len(wanted) : wanted[k] \in Region

\* The regions the gate has let through so far.
Gated ==
  /\ phase = "check" => at = 1
  /\ phase = "gate" => \A k \in 1 .. at - 1 : sources[wanted[k]] \in Passing
  /\ phase \notin {"idle", "check", "gate"} =>
       \A k \in 1 .. Len(wanted) : sources[wanted[k]] \in Passing

\* What the run is making is made from what it imported, at every stage.
Made ==
  /\ phase = "copy" => work[Here] = [kind |-> "cart", of |-> sources[Here]]
  /\ phase = "patch" => asm[Here] = [kind |-> "cart", of |-> sources[Here]]
  /\ phase = "collect" => asm[Here] = [kind |-> "bypass", of |-> sources[Here]]
  /\ phase = "build" => image = [kind |-> "bypass", of |-> sources[Here]] /\ asm[Here] = None

Finished(v) == [kind |-> "image", of |-> v]

\* The lines gathered are those of the regions done, and each file is there.
Gathered ==
  /\ phase \in {"check", "gate"} => lines = <<>>
  /\ phase \in {"stage", "copy", "patch", "collect", "build"} => Len(lines) = at - 1
  /\ phase = "manifest" => Len(lines) = Len(wanted)
  /\ phase \notin {"idle", "check", "gate"} =>
       \A k \in 1 .. Len(lines) :
         /\ lines[k] = [region |-> wanted[k], file |-> Finished(sources[wanted[k]])]
         /\ dist[wanted[k]] = Finished(sources[wanted[k]])
         /\ asm[wanted[k]] = None \/ (wanted[k] = Here /\ phase \in {"patch", "collect"})

\* No line of the manifest is about a file dist/ lacks, and before the first
\* run there is no manifest.
Listed ==
  /\ \A k \in 1 .. Len(manifest) : dist[manifest[k].region] # None
  /\ phase # "idle" => code = -1
  /\ phase = "idle" /\ code = -1 => manifest = <<>>
  /\ code \in {-1, 0, 1, 2, 130}

PackInv ==
  Types /\ Placed /\ Gated /\ Made /\ Gathered /\ Listed /\ OnlyGatedImages /\ SuccessIsWhole

-----------------------------------------------------------------------------
\* A run that ends without success keeps the invariant, whatever it leaves in
\* the assembler's directory.
LEMMA EndKeeps ==
  ASSUME PackInv, phase # "idle", NEW n \in {1, 2, 130}, Ends(n),
         UNCHANGED <<work, dist, manifest>>, asm' \in [Region -> File]
  PROVE  PackInv'
<1>1. Types'
  BY DEF PackInv, Types, Ends
<1>2. Placed' /\ Gated' /\ Made' /\ Gathered' /\ Listed' /\ OnlyGatedImages'
  BY DEF PackInv, Ends, Placed, Gated, Made, Gathered, Listed, OnlyGatedImages
<1>3. SuccessIsWhole'
  BY DEF PackInv, Types, Ends, Listed, SuccessIsWhole
<1> QED
  BY <1>1, <1>2, <1>3 DEF PackInv

\* The region a run is at is one the tree has, and passed the gate.
LEMMA HereFacts ==
  ASSUME PackInv, phase \notin {"idle", "check", "gate"}
  PROVE  Here \in Region /\ sources[Here] \in Passing /\ sources[Here] \in Version
  BY DEF PackInv, Types, Placed, Gated, Here

\* Somebody edits the tree.
LEMMA EditKeeps ==
  ASSUME PackInv, NEW r \in Region, Edit(r)
  PROVE  PackInv'
<1>1. edits + 1 \in Version
  BY PackAssumption DEF PackInv, Types, Edit, Version
<1>2. Types'
  BY <1>1 DEF PackInv, Types, Edit, disk, runVars
<1> QED
  BY <1>2 DEF PackInv, Edit, disk, runVars, Placed, Gated, Made, Gathered, Listed,
     OnlyGatedImages, SuccessIsWhole, Here, Finished, Wanted

\* A run starts.
LEMMA StartKeeps ==
  ASSUME PackInv, NEW args \in Arguments, Start(args)
  PROVE  PackInv'
<1>1. wanted' \in Seq(Name) /\ None \in File
  <2>1. All \in Seq(Name)
    BY SeqMonotonic, PackAssumption DEF Name
  <2>2. args \in Seq(Name)
    BY PackAssumption
  <2>3. None \in File
    BY PackAssumption DEF None, File, Version
  <2> QED
    BY <2>1, <2>2, <2>3 DEF Start
<1>2. Types'
  BY <1>1 DEF PackInv, Types, Start, disk
<1>3. 1 \in 1 .. Len(wanted')
  BY PackAssumption DEF Start
<1> QED
  BY <1>2, <1>3 DEF PackInv, Start, disk, Placed, Gated, Made, Gathered, Listed,
     OnlyGatedImages, SuccessIsWhole

-----------------------------------------------------------------------------
\* The steps of a run that goes on.
LEMMA StepKeeps ==
  ASSUME PackInv, Step
  PROVE  PackInv'
<1> USE DEF PackInv, Types
<1>1. CASE Unknown
  BY <1>1, EndKeeps DEF Unknown, disk
<1>2. CASE DumpMissing
  BY <1>2, EndKeeps DEF DumpMissing, disk
<1>3. CASE GateRefuses
  BY <1>3, EndKeeps DEF GateRefuses, disk
<1>4. CASE NoToolchain
  BY <1>4, EndKeeps DEF NoToolchain, disk
<1>5. CASE BuildRaises
  BY <1>5, EndKeeps DEF BuildRaises, disk
<1>6. CASE PatchFails
  <2>1. Here \in Region /\ phase = "patch"
    BY <1>6, HereFacts DEF PatchFails
  <2>2. PICK k \in {"cart", "part"} : asm' = [asm EXCEPT ![Here].kind = k]
    BY <1>6 DEF PatchFails
  <2>3. asm' \in [Region -> File]
    <3>1. asm \in [Region -> File] /\ asm[Here] \in File
      BY <2>1
    <3>2. ASSUME NEW f \in File PROVE [f EXCEPT !.kind = k] \in File
      BY <2>2 DEF File
    <3>3. [asm[Here] EXCEPT !.kind = k] \in File
      BY <3>1, <3>2
    <3> QED
      BY <2>1, <2>2, <3>1, <3>3
  <2> QED
    BY <1>6, <2>1, <2>3, EndKeeps DEF PatchFails
<1>7. CASE Checked
  <2>1. phase = "check" /\ phase' = "gate" /\ Wanted \subseteq Region
    BY <1>7 DEF Checked, Goes
  <2>2. UNCHANGED <<tree, edits, runs, dumps, wanted, sources, lines, code, at, image, disk>>
    BY <1>7 DEF Checked, Goes
  <2>3. Placed'
    BY <2>1, <2>2 DEF Wanted, Placed
  <2>4. at = 1
    BY <2>1 DEF Gated
  <2>5. Types'
    BY <2>1, <2>2, <2>4 DEF disk
  <2>6. Gated' /\ Made' /\ Gathered'
    BY <2>1, <2>2, <2>4 DEF disk, Gated, Made, Gathered
  <2>7. Listed' /\ OnlyGatedImages' /\ SuccessIsWhole'
    BY <2>1, <2>2 DEF disk, Listed, OnlyGatedImages, SuccessIsWhole
  <2> QED
    BY <2>3, <2>5, <2>6, <2>7
<1>8. CASE GatePasses
  <2>1. phase = "gate" /\ at' \in 1 .. Len(wanted) /\ phase' \in {"gate", "stage"}
    BY <1>8 DEF GatePasses, Goes, Placed
  <2>2. UNCHANGED <<tree, edits, runs, dumps, wanted, sources, lines, code, image, disk>>
    BY <1>8 DEF GatePasses, Goes
  <2>3. Gated'
    BY <1>8, <2>2 DEF GatePasses, Goes, Gated, Placed, Here
  <2>4. Gathered'
    BY <1>8, <2>2 DEF GatePasses, Goes, Gathered
  <2>5. Types'
    BY <2>1, <2>2 DEF disk, Placed
  <2>6. Placed' /\ Made'
    BY <2>1, <2>2 DEF disk, Placed, Made
  <2>7. Listed' /\ OnlyGatedImages' /\ SuccessIsWhole'
    BY <2>1, <2>2 DEF disk, Listed, OnlyGatedImages, SuccessIsWhole
  <2> QED
    BY <2>3, <2>4, <2>5, <2>6, <2>7
<1>h. ASSUME phase \notin {"idle", "check", "gate"} PROVE Here \in Region /\ sources[Here] \in Version
  BY <1>h, HereFacts
<1>f. \A k \in {"none", "cart", "part", "bypass", "image"}, v \in Version : [kind |-> k, of |-> v] \in File
  BY DEF File
<1>9. CASE Stage
  <2>1. phase = "stage" /\ phase' = "copy" /\ Here \in Region /\ sources[Here] \in Version
    BY <1>9, <1>h DEF Stage, Goes
  <2>2. work' = [work EXCEPT ![Here] = [kind |-> "cart", of |-> sources[Here]]]
    BY <1>9 DEF Stage
  <2>3. UNCHANGED <<tree, edits, runs, dumps, wanted, sources, lines, code, at, image, asm, dist, manifest>>
    BY <1>9 DEF Stage, Goes
  <2>4. work' \in [Region -> File]
    BY <2>1, <2>2, <1>f
  <2> QED
    BY <2>1, <2>2, <2>3, <2>4 DEF Here, Finished, Placed, Gated, Made, Gathered, Listed, OnlyGatedImages, SuccessIsWhole
<1>10. CASE Copy
  <2>1. phase = "copy" /\ phase' = "patch" /\ Here \in Region
    BY <1>10, <1>h DEF Copy, Goes
  <2>2. asm' = [asm EXCEPT ![Here] = work[Here]]
    BY <1>10 DEF Copy
  <2>3. UNCHANGED <<tree, edits, runs, dumps, wanted, sources, lines, code, at, image, work, dist, manifest>>
    BY <1>10 DEF Copy, Goes
  <2> QED
    BY <2>1, <2>2, <2>3 DEF Here, Finished, Placed, Gated, Made, Gathered, Listed, OnlyGatedImages, SuccessIsWhole
<1>11. CASE Patch
  <2>1. phase = "patch" /\ phase' = "collect" /\ Here \in Region /\ sources[Here] \in Version
    BY <1>11, <1>h DEF Patch, Goes
  <2>2. asm' = [asm EXCEPT ![Here] = [kind |-> "bypass", of |-> sources[Here]]]
    <3>1. asm[Here] = [kind |-> "cart", of |-> sources[Here]]
      BY <2>1 DEF Made
    <3>2. asm' = [asm EXCEPT ![Here] = [asm[Here] EXCEPT !.kind = "bypass"]]
      BY <1>11 DEF Patch
    <3>3. [asm[Here] EXCEPT !.kind = "bypass"] = [kind |-> "bypass", of |-> sources[Here]]
      BY <3>1
    <3> QED
      BY <3>2, <3>3
  <2>3. UNCHANGED <<tree, edits, runs, dumps, wanted, sources, lines, code, at, image, work, dist, manifest>>
    BY <1>11 DEF Patch, Goes
  <2>4. asm' \in [Region -> File]
    BY <2>1, <2>2, <1>f
  <2> QED
    BY <2>1, <2>2, <2>3, <2>4 DEF Here, Finished, Placed, Gated, Made, Gathered, Listed, OnlyGatedImages, SuccessIsWhole
<1>12. CASE Collect
  <2>1. phase = "collect" /\ phase' = "build" /\ Here \in Region /\ None \in File
    BY <1>12, <1>h, <1>f, PackAssumption DEF Collect, Goes, None, Version
  <2>2. image' = asm[Here] /\ asm' = [asm EXCEPT ![Here] = None]
    BY <1>12 DEF Collect
  <2>3. UNCHANGED <<tree, edits, runs, dumps, wanted, sources, lines, code, at, work, dist, manifest>>
    BY <1>12 DEF Collect, Goes
  <2> QED
    BY <2>1, <2>2, <2>3 DEF Here, Finished, Placed, Gated, Made, Gathered, Listed, OnlyGatedImages, SuccessIsWhole
<1>13. CASE Write
  <2>1. phase = "build" /\ Here \in Region /\ sources[Here] \in Version /\ sources[Here] \in Passing
    BY <1>13, <1>h, HereFacts DEF Write
  <2>2. /\ dist' = [dist EXCEPT ![Here] = Finished(sources[Here])]
        /\ lines' = Append(lines, [region |-> Here, file |-> Finished(sources[Here])])
    <3>1. image = [kind |-> "bypass", of |-> sources[Here]]
      BY <2>1 DEF Made
    <3>2. [kind |-> IF image.kind = "bypass" THEN "image" ELSE image.kind, of |-> image.of] = Finished(sources[Here])
      BY <3>1 DEF Finished
    <3> QED
      BY <1>13, <3>2 DEF Write
  <2>3. UNCHANGED <<tree, edits, runs, dumps, wanted, sources, code, image, asm, work, manifest>>
    BY <1>13 DEF Write
  <2>4. /\ at < Len(wanted) => at' = at + 1 /\ phase' = "stage"
        /\ at >= Len(wanted) => at' = at /\ phase' = "manifest"
        /\ phase' = "stage" => at' = at + 1
        /\ at' \in 1 .. Len(wanted) /\ phase' \in {"stage", "manifest"}
    BY <1>13 DEF Write, Placed
  <2>5. Finished(sources[Here]) \in File /\ [region |-> Here, file |-> Finished(sources[Here])] \in Entry
    BY <2>1, <1>f DEF Finished, Entry
  <2>6. Types'
    <3>1. dist' \in [Region -> File] /\ lines' \in Seq(Entry)
      BY <2>2, <2>5, AppendProperties
    <3> QED
      BY <2>3, <2>4, <3>1
  <2>7. Gathered'
    <3>1. Len(lines) = at - 1 /\ Len(lines') = at
      BY <2>1, <2>2, <2>5 DEF Gathered
    <3>2. phase' = "manifest" => Len(lines') = Len(wanted)
      BY <2>1, <2>4, <3>1 DEF Placed
    <3>3. \A k \in 1 .. Len(lines') :
            lines'[k] = IF k = at THEN [region |-> wanted[at], file |-> Finished(sources[wanted[at]])] ELSE lines[k]
      BY <2>2, <2>5, <3>1, AppendProperties DEF Here
    <3>4. ASSUME NEW k \in 1 .. Len(lines'), k # at
          PROVE  /\ lines[k] = [region |-> wanted[k], file |-> Finished(sources[wanted[k]])]
                 /\ dist[wanted[k]] = Finished(sources[wanted[k]])
                 /\ asm[wanted[k]] = None
      BY <2>1, <3>1, <3>4 DEF Gathered, Here
    <3>5. ASSUME NEW k \in 1 .. Len(lines')
          PROVE  /\ lines'[k] = [region |-> wanted[k], file |-> Finished(sources[wanted[k]])]
                 /\ dist'[wanted[k]] = Finished(sources[wanted[k]])
                 /\ asm[wanted[k]] = None
      <4>1. CASE k = at
        BY <2>1, <2>2, <3>3, <4>1 DEF Here, Made
      <4>2. CASE k # at
        <5>1. wanted[k] \in Region
          BY <2>1, <3>1 DEF Placed
        <5> QED
          BY <2>1, <2>2, <3>3, <3>4, <4>2, <5>1 DEF Here
      <4> QED
        BY <4>1, <4>2
    <3> QED
      <4>1. UNCHANGED <<asm, sources, wanted>> /\ phase' \in {"stage", "manifest"}
        BY <2>3, <2>4
      <4>2. phase' = "stage" => Len(lines') = at' - 1
        BY <2>4, <3>1
      <4> QED
        BY <3>2, <3>5, <4>1, <4>2 DEF Gathered
  <2>8. Listed' /\ OnlyGatedImages'
    BY <2>1, <2>2, <2>3, <2>4 DEF Listed, OnlyGatedImages, Finished, None
  <2> QED
    BY <2>1, <2>3, <2>4, <2>6, <2>7, <2>8 DEF Placed, Gated, Made, SuccessIsWhole
<1>14. CASE Manifest
  <2>1. phase = "manifest" /\ phase' = "idle" /\ code' = 0 /\ manifest' = lines /\ Len(lines) = Len(wanted)
    BY <1>14 DEF Manifest, Ends, Gathered
  <2>2. UNCHANGED <<tree, edits, runs, dumps, wanted, at, sources, lines, image, work, asm, dist>>
    BY <1>14 DEF Manifest, Ends
  <2>3. \A k \in 1 .. Len(wanted) :
          /\ lines[k] = [region |-> wanted[k], file |-> Finished(sources[wanted[k]])]
          /\ dist[wanted[k]] = Finished(sources[wanted[k]]) /\ asm[wanted[k]] = None
    BY <2>1 DEF Gathered
  <2>4. DOMAIN manifest' = 1 .. Len(wanted) /\ DOMAIN wanted = 1 .. Len(wanted)
    BY <2>1, LenProperties
  <2>5. [k \in DOMAIN manifest' |-> manifest'[k].region] = wanted
    BY <2>1, <2>3, <2>4, LenProperties
  <2>6. SuccessIsWhole'
    <3>1. \A r \in Wanted : dist[r] = Finished(sources[r]) /\ asm[r] = None
      <4> SUFFICES ASSUME NEW r \in Wanted PROVE dist[r] = Finished(sources[r]) /\ asm[r] = None
        OBVIOUS
      <4>1. PICK k \in 1 .. Len(wanted) : r = wanted[k]
        BY <2>4 DEF Wanted
      <4> QED
        BY <2>3, <4>1, Zenon
    <3>2. \A k \in DOMAIN manifest' :
            dist[manifest'[k].region] = Finished(sources[wanted[k]]) /\ manifest'[k].file = Finished(sources[wanted[k]])
      BY <2>1, <2>3, <2>4
    <3>3. \A v : Finished(v) # None /\ Finished(v).of = v
      BY DEF Finished, None
    <3>4. Wanted' = Wanted
      BY <2>2 DEF Wanted
    <3> QED
      BY <2>1, <2>2, <2>5, <3>1, <3>2, <3>3, <3>4 DEF SuccessIsWhole
  <2> QED
    <3>1. \A k \in 1 .. Len(manifest') : dist[manifest'[k].region] # None
      <4>1. \A r : Finished(r) # None
        BY DEF Finished, None
      <4>2. ASSUME NEW k \in 1 .. Len(manifest')
            PROVE  manifest'[k].region = wanted[k] /\ dist[wanted[k]] = Finished(sources[wanted[k]])
        <5>1. k \in 1 .. Len(wanted) /\ manifest'[k] = lines[k]
          BY <2>1, <4>2
        <5>2. lines[k] = [region |-> wanted[k], file |-> Finished(sources[wanted[k]])]
          BY <2>3, <5>1, Zenon
        <5> QED
          BY <2>3, <5>1, <5>2
      <4> QED
        BY <4>1, <4>2
    <3> QED
      BY <2>1, <2>2, <2>6, <3>1 DEF Placed, Gated, Made, Gathered, Listed, OnlyGatedImages
<1> QED
  BY <1>1, <1>2, <1>3, <1>4, <1>5, <1>6, <1>7, <1>8, <1>9, <1>10, <1>11, <1>12, <1>13, <1>14 DEF Step

-----------------------------------------------------------------------------
\* What the gate saw, what a run makes of it and what the manifest says of it
\* stay together whatever is edited, refused, broken off or repeated.
THEOREM PackInvariant == PackSpec => []PackInv
<1>1. PackInit => PackInv
  BY EmptySeq, PackAssumption DEF PackInit, PackInv, Types, Placed, Gated, Made, Gathered, Listed,
     OnlyGatedImages, SuccessIsWhole, Version, File, None
<1>2. PackInv /\ [PackNext]_packVars => PackInv'
  <2> SUFFICES ASSUME PackInv, [PackNext]_packVars PROVE PackInv'
    OBVIOUS
  <2>1. CASE Step
    BY <2>1, StepKeeps
  <2>2. CASE Stopped
    BY <2>2, EndKeeps DEF Stopped, disk, PackInv, Types
  <2>3. ASSUME NEW r \in Region, Edit(r) PROVE PackInv'
    BY <2>3, EditKeeps
  <2>4. ASSUME NEW args \in Arguments, Start(args) PROVE PackInv'
    BY <2>4, StartKeeps
  <2>5. CASE UNCHANGED packVars
    <3>1. Types' /\ Placed' /\ Gated' /\ Made' /\ Listed'
      BY <2>5 DEF packVars, PackInv, Types, Placed, Gated, Made, Listed, Here
    <3>2. Gathered'
      BY <2>5 DEF packVars, PackInv, Gathered, Here, Finished
    <3>3. OnlyGatedImages' /\ SuccessIsWhole'
      BY <2>5 DEF packVars, PackInv, OnlyGatedImages, SuccessIsWhole, Wanted
    <3> QED
      BY <3>1, <3>2, <3>3 DEF PackInv
  <2> QED
    BY <2>1, <2>2, <2>3, <2>4, <2>5 DEF PackNext
<1> QED
  BY <1>1, <1>2, PTL DEF PackSpec

\* An image that reaches dist/ is finished and made from sources the gate
\* passed, whatever earlier runs left behind.
THEOREM ImagesAreGated == PackSpec => []OnlyGatedImages
<1>1. PackInv => OnlyGatedImages
  BY DEF PackInv
<1> QED
  BY <1>1, PackInvariant, PTL

\* A run that exits zero leaves a manifest of exactly its regions, each file
\* made from what the run imported.
THEOREM SuccessMeansWhole == PackSpec => []SuccessIsWhole
<1>1. PackInv => SuccessIsWhole
  BY DEF PackInv
<1> QED
  BY <1>1, PackInvariant, PTL

-----------------------------------------------------------------------------
(* The stream table. *)

\* Lengths a transfer can have, and tables.
Bounded == 1 .. MaxLength
Numbers == [Sources -> Nat]

TableTypes ==
  /\ htable \in Numbers /\ hwanted \in Numbers /\ variant \in 1 .. Variants
  /\ hpc # "exited" => hgame \in HarvestGames
  /\ file \in Numbers /\ table \in Numbers /\ candidates \in Numbers
  /\ round \in Nat /\ added \in Nat
  /\ \A r \in game : r.length \in Bounded
  /\ seen \in Numbers /\ widened \in Numbers
  /\ \A l \in met : l.length \in Bounded

\* One tool after the other.  Once the second has played a round, the table in
\* memory is the one on disk but for what the round under way has added.
Turns ==
  /\ pc = "waiting" <=> hpc # "exited"
  /\ IF pc = "waiting" THEN round = 0 ELSE limit # 0
  /\ opc # "idle" => pc \in {"converged", "exhausted"}
  /\ pc \in {"add", "converged"} => round # 0
  /\ pc = "exhausted" => round = limit
  /\ round # 0 /\ pc \notin {"waiting", "add"} /\ opc # "written" => table = file

\* The longest request the cartridge makes of s, built from table t.
LongestAsked(t, s) == Largest({r.length : r \in {q \in Asked(t) : q.source = s}})

\* What the round under way has left to do and has done.
Adding ==
  pc = "add" => \A s \in Sources :
    /\ table[s] >= file[s]
    /\ Has(candidates, s) => file[s] = 0
    /\ added = 0 =>
         /\ table[s] = file[s]
         /\ LongestAsked(file, s) # 0 /\ Decodes(s, LongestAsked(file, s)) =>
              Has(file, s) \/ candidates[s] = LongestAsked(file, s)

\* The tours have seen the longest of every request they met.
Touring ==
  /\ opc = "tour" => widened = file
  /\ \A s \in Sources : seen[s] = Largest({l.length : l \in {q \in met : q.source = s}})

\* SourcesComplete and OracleRestores are about the moment a tool ends and
\* stand from then on.
TablesInv == TableTypes /\ Turns /\ Adding /\ Touring /\ SourcesComplete /\ OracleRestores

-----------------------------------------------------------------------------
(* The longest of a set of lengths *)

\* Largest finds a longest one, or zero where there is none.
LEMMA LargestIs ==
  ASSUME NEW S, NEW b \in Nat, S \subseteq 0 .. b
  PROVE  /\ Largest(S) \in 0 .. b
         /\ S = {} => Largest(S) = 0
         /\ S # {} => Largest(S) \in S
         /\ \A n \in S : n <= Largest(S)
<1>1. CASE S = {}
  BY <1>1 DEF Largest
<1>2. CASE S # {}
  <2> DEFINE T == {b - n : n \in S}
  <2>1. T \in SUBSET Nat /\ T # {}
    <3>1. \A n \in S : n \in 0 .. b /\ b - n \in Nat
      OBVIOUS
    <3> QED
      BY <1>2, <3>1
  <2>2. PICK m \in T : \A k \in T : m <= k
    <3> HIDE DEF T
    <3> QED BY <2>1, LeastNatural
  <2>3. PICK n \in S : m = b - n
    OBVIOUS
  <2>4. ASSUME NEW k \in S PROVE k <= n
    <3>1. b - k \in T
      OBVIOUS
    <3>2. b - n <= b - k
      BY <2>2, <2>3, <3>1
    <3>3. k \in Int /\ n \in Int
      OBVIOUS
    <3> HIDE DEF T
    <3> QED
      BY <3>2, <3>3
  <2>5. Largest(S) \in S /\ \A k \in S : k <= Largest(S)
    <3>1. \E x \in S : \A k \in S : k <= x
      BY <2>4
    <3> QED
      BY <1>2, <3>1 DEF Largest
  <2> QED
    BY <1>2, <2>5
<1> QED
  BY <1>1, <1>2

\* There is only one.
LEMMA LargestUnique ==
  ASSUME NEW S, NEW b \in Nat, S \subseteq 0 .. b, NEW n \in S, \A k \in S : k <= n
  PROVE  Largest(S) = n
<1>1. Largest(S) \in S /\ n <= Largest(S) /\ Largest(S) \in 0 .. b
  BY LargestIs
<1> QED
  BY <1>1

\* The longest of two sets is the longer of their longest.
LEMMA LargestOfBoth ==
  ASSUME NEW A, NEW B, NEW b \in Nat, A \subseteq 0 .. b, B \subseteq 0 .. b
  PROVE  Largest(A \cup B) = Largest({Largest(A), Largest(B)})
<1> DEFINE x == Largest(A)
           y == Largest(B)
           z == Largest({x, y})
<1>1. /\ x \in 0 .. b /\ y \in 0 .. b
      /\ (A = {} => x = 0) /\ (B = {} => y = 0)
      /\ (A # {} => x \in A) /\ (B # {} => y \in B)
      /\ (\A n \in A : n <= x) /\ (\A n \in B : n <= y)
  BY LargestIs
<1> HIDE DEF x, y
<1>2. {x, y} \subseteq 0 .. b
  BY <1>1
<1>3. z \in {x, y} /\ x <= z /\ y <= z /\ z \in 0 .. b
  BY <1>2, LargestIs
<1> HIDE DEF z
<1>4. CASE A \cup B = {}
  <2>1. z = 0
    BY <1>1, <1>3, <1>4
  <2>2. Largest(A \cup B) = 0
    BY <1>4 DEF Largest
  <2> QED
    BY <2>1, <2>2 DEF z, x, y
<1>5. CASE A \cup B # {}
  <2>1. \A k \in A \cup B : k <= z
    BY <1>1, <1>3
  <2>2. z \in A \cup B
    BY <1>1, <1>3, <1>5
  <2>3. A \cup B \subseteq 0 .. b
    OBVIOUS
  <2>4. Largest(A \cup B) = z
    BY <2>1, <2>2, <2>3, LargestUnique
  <2> QED
    BY <2>4 DEF z, x, y
<1> QED
  BY <1>4, <1>5

-----------------------------------------------------------------------------
(* The harvester *)

\* A trimmed length is a length.
LEMMA ShortenType ==
  ASSUME NEW o, NEW n \in Nat, NEW s
  PROVE  H!ShortenTo(o, n, s) \in Nat
<1> DEFINE K == {k \in 1 .. n : EndOf(o, k) <= s}
<1>1. K \subseteq 0 .. n
  OBVIOUS
<1>2. Largest(K) \in 0 .. n
  <2> HIDE DEF K
  <2> QED BY <1>1, LargestIs, Zenon
<1>3. H!Largest(K) = Largest(K)
  BY DEF H!Largest, Largest
<1>4. H!ShortenTo(o, n, s) \in {H!Largest(K), 0}
  BY DEF H!ShortenTo
<1> QED
  BY <1>2, <1>3, <1>4

\* Trimming entries none of which is stuck loses none.
LEMMA Trimming ==
  ASSUME htable \in Numbers, NEW s \in Sources,
         NEW T, T \subseteq H!Overlapped(s), T \cap H!Stuck(s) = {}
  PROVE  /\ H!TrimmedUpTo(s, T) \in Numbers
         /\ \A o \in Sources : Has(htable, o) => Has(H!TrimmedUpTo(s, T), o)
<1>1. ASSUME NEW o \in Sources
      PROVE  /\ H!TrimmedUpTo(s, T)[o] = IF o \in T THEN H!ShortenTo(o, htable[o], s) ELSE htable[o]
             /\ htable[o] \in Nat /\ H!ShortenTo(o, htable[o], s) \in Nat
  <2>1. htable[o] \in Nat
    BY DEF Numbers
  <2> QED
    BY <2>1, ShortenType DEF H!TrimmedUpTo
<1>2. H!TrimmedUpTo(s, T) \in Numbers
  BY <1>1 DEF Numbers, H!TrimmedUpTo
<1>3. ASSUME NEW o \in T PROVE H!ShortenTo(o, htable[o], s) # 0
  BY DEF H!Stuck
<1> QED
  BY <1>1, <1>2, <1>3 DEF Has

\* The entry the harvester gives up at is the first that is stuck.
LEMMA FirstIsFirst ==
  ASSUME NEW s \in Sources, H!Stuck(s) # {}
  PROVE  {o \in H!Overlapped(s) : o < H!FirstStuck(s)} \cap H!Stuck(s) = {}
<1>1. H!Stuck(s) \in SUBSET Nat
  BY ConvergeAssumption DEF H!Stuck, H!Overlapped
<1>2. \E o \in H!Stuck(s) : \A p \in H!Stuck(s) : o <= p
  BY <1>1, LeastNatural
<1>3. H!FirstStuck(s) \in H!Stuck(s) /\ \A p \in H!Stuck(s) : H!FirstStuck(s) <= p
  BY <1>2 DEF H!FirstStuck
<1>4. ASSUME NEW o \in H!Stuck(s) PROVE ~(o < H!FirstStuck(s))
  <2>1. H!FirstStuck(s) <= o /\ o \in Nat /\ H!FirstStuck(s) \in Nat
    BY <1>1, <1>3
  <2> QED
    BY <2>1
<1> QED
  BY <1>4

\* What the harvester's steps keep, and that they lose no source.
LEMMA HarvestKeeps ==
  ASSUME TableTypes, hpc # "exited", H!Next
  PROVE  /\ htable' \in Numbers /\ hwanted' \in Numbers /\ variant' \in 1 .. Variants
         /\ hgame' = hgame /\ hpc' # "exited"
         /\ \A s \in Sources : Has(htable, s) => Has(htable', s)
<1>t. /\ htable \in Numbers /\ hwanted \in Numbers /\ variant \in 1 .. Variants
      /\ hgame \in HarvestGames /\ Variants \in Nat \ {0} /\ MaxLength \in Nat
  BY HarvestAssumption DEF TableTypes
<1>1. ASSUME NEW over \in SUBSET Sources, H!Drive(over)
      PROVE  /\ UNCHANGED <<htable, hgame, variant>> /\ hwanted' \in Numbers /\ hpc' = "absorb"
  <2> DEFINE S(s) == {r.length : r \in {q \in H!scan_log(over) : q.source = s}}
  <2>1. hgame[variant] \in SUBSET [source : Sources, length : 1 .. MaxLength]
    BY <1>t, HarvestAssumption
  <2>2. ASSUME NEW s \in Sources PROVE H!Largest(S(s)) \in Nat
    <3>1. S(s) \subseteq 0 .. MaxLength
      BY <2>1 DEF H!scan_log
    <3>2. Largest(S(s)) \in Nat
      <4> HIDE DEF S
      <4> QED BY <1>t, <3>1, LargestIs
    <3>3. H!Largest(S(s)) = Largest(S(s))
      BY DEF H!Largest, Largest
    <3> QED
      BY <3>2, <3>3
  <2>3. H!missed_streams(H!scan_log(over)) = [s \in Sources |-> H!Largest(S(s))]
    BY DEF H!missed_streams
  <2> HIDE DEF S
  <2>4. H!missed_streams(H!scan_log(over)) \in Numbers
    BY <2>2, <2>3 DEF Numbers
  <2> QED
    BY <1>1, <2>4 DEF H!Drive
<1>2. ASSUME H!BuildFails \/ H!NextVariant \/ H!EndRound
      PROVE  UNCHANGED <<htable, hgame, hwanted>> /\ variant' \in 1 .. Variants /\ hpc' # "exited"
  BY <1>2, <1>t DEF H!BuildFails, H!NextVariant, H!EndRound
<1>3. ASSUME NEW s \in Sources, H!Done(s) PROVE hwanted' \in Numbers
  BY <1>3, <1>t DEF H!Done, Numbers
<1>4. ASSUME NEW s \in Sources, H!Known(s) \/ H!Undecodable(s)
      PROVE  UNCHANGED <<htable, hgame, variant, hpc>> /\ hwanted' \in Numbers
  BY <1>3, <1>4 DEF H!Known, H!Undecodable
<1>5. ASSUME NEW s \in Sources, H!Absorb(s)
      PROVE  /\ UNCHANGED <<hgame, variant, hpc>> /\ hwanted' \in Numbers /\ htable' \in Numbers
             /\ \A o \in Sources : Has(htable, o) => Has(htable', o)
  <2>1. /\ UNCHANGED <<hgame, variant, hpc>> /\ hwanted' \in Numbers /\ H!Stuck(s) = {}
        /\ hwanted[s] \in Nat /\ hwanted[s] # 0
        /\ htable' = [H!TrimmedUpTo(s, H!Overlapped(s)) EXCEPT ![s] = hwanted[s]]
    BY <1>3, <1>5, <1>t DEF H!Absorb, H!NextWanted, H!Has, Numbers
  <2>2. /\ H!TrimmedUpTo(s, H!Overlapped(s)) \in Numbers
        /\ \A o \in Sources : Has(htable, o) => Has(H!TrimmedUpTo(s, H!Overlapped(s)), o)
    BY <1>t, <2>1, Trimming
  <2> QED
    BY <2>1, <2>2 DEF Numbers, Has
<1>6. ASSUME NEW s \in Sources, H!GiveUp(s)
      PROVE  /\ UNCHANGED <<hgame, variant, hpc>> /\ hwanted' \in Numbers /\ htable' \in Numbers
             /\ \A o \in Sources : Has(htable, o) => Has(htable', o)
  <2> DEFINE T == {o \in H!Overlapped(s) : o < H!FirstStuck(s)}
  <2>1. /\ UNCHANGED <<hgame, variant, hpc>> /\ hwanted' \in Numbers /\ H!Stuck(s) # {}
        /\ htable' = H!TrimmedUpTo(s, T)
    BY <1>3, <1>6 DEF H!GiveUp
  <2>2. T \cap H!Stuck(s) = {} /\ T \subseteq H!Overlapped(s)
    BY <2>1, FirstIsFirst
  <2> HIDE DEF T
  <2> QED
    BY <1>t, <2>1, <2>2, Trimming
<1> QED
  BY <1>1, <1>2, <1>4, <1>5, <1>6, <1>t DEF H!Next

-----------------------------------------------------------------------------
(* One step of the three tools *)

\* What SourcesKept asks of a step.
Kept ==
  \A s \in Sources :
    /\ Has(Standing, s) => Has(Standing', s)
    /\ pc # "waiting" => file'[s] >= file[s]

\* The types, one by one.
LEMMA Unfolded ==
  ASSUME TablesInv
  PROVE  /\ htable \in Numbers /\ hwanted \in Numbers /\ variant \in 1 .. Variants
         /\ (hpc # "exited" => hgame \in HarvestGames)
         /\ file \in Numbers /\ table \in Numbers /\ candidates \in Numbers
         /\ round \in Nat /\ added \in Nat
         /\ (\A r \in game : r.length \in Bounded)
         /\ seen \in Numbers /\ widened \in Numbers
         /\ (\A l \in met : l.length \in Bounded)
         /\ MaxLength \in Nat /\ NoTable \in Numbers
  BY HarvestAssumption DEF TablesInv, TableTypes, NoTable, Numbers

\* Requests are bounded, so there is a longest.
LEMMA LongestType ==
  ASSUME TablesInv, NEW t, NEW s
  PROVE  LongestAsked(t, s) \in 0 .. MaxLength
<1> DEFINE S == {r.length : r \in {q \in Asked(t) : q.source = s}}
<1>1. S \subseteq 0 .. MaxLength
  <2>1. \A r \in game : r.length \in 1 .. MaxLength
    BY Unfolded DEF Bounded
  <2> QED
    BY <2>1 DEF Asked
<1>2. MaxLength \in Nat
  BY HarvestAssumption
<1> HIDE DEF S
<1>3. Largest(S) \in 0 .. MaxLength
  BY <1>1, <1>2, LargestIs, Zenon
<1> QED
  BY <1>3 DEF LongestAsked, S

\* The harvester leaves everything of the other two alone.
LEMMA HarvestStepKeeps ==
  ASSUME TablesInv, HarvestStep
  PROVE  TablesInv' /\ Kept
<1>1. H!Next /\ UNCHANGED <<vars, oracleVars>> /\ pc = "waiting" /\ hpc # "exited"
  BY DEF HarvestStep, TablesInv, Turns
<1>2. /\ htable' \in Numbers /\ hwanted' \in Numbers /\ variant' \in 1 .. Variants
      /\ hgame' = hgame /\ hpc' # "exited"
      /\ \A s \in Sources : Has(htable, s) => Has(htable', s)
  BY <1>1, HarvestKeeps DEF TablesInv
<1>3. TableTypes'
  BY <1>1, <1>2 DEF TablesInv, TableTypes, vars, oracleVars
<1>4. Turns' /\ Adding' /\ Touring' /\ SourcesComplete' /\ OracleRestores'
  BY <1>1, <1>2 DEF TablesInv, vars, oracleVars, Turns, Adding, Touring, SourcesComplete, OracleRestores
<1>5. Kept
  BY <1>1, <1>2 DEF Kept, Standing, vars
<1> QED
  BY <1>3, <1>4, <1>5 DEF TablesInv

\* The file is the table the harvester had in memory.
LEMMA HandOverKeeps ==
  ASSUME TablesInv, HandOver
  PROVE  TablesInv' /\ Kept
<1>1. /\ pc = "waiting" /\ pc' = "round" /\ file' = htable /\ game' \in Games /\ limit' \in Rounds
      /\ hpc' = "exited" /\ htable' = NoTable /\ variant' = 1
      /\ UNCHANGED <<table, candidates, round, added, hwanted, oracleVars>>
  BY DEF HandOver
<1>2. opc = "idle" /\ round = 0
  BY <1>1 DEF TablesInv, Turns
<1>3. \A r \in game' : r.length \in Bounded
  BY <1>1, ConvergeAssumption, HarvestAssumption DEF Bounded
<1>4. TableTypes'
  <2>1. 1 \in 1 .. Variants
    BY HarvestAssumption
  <2> QED
    BY <1>1, <1>3, <2>1, Unfolded DEF TableTypes, oracleVars
<1>5. limit' # 0
  BY <1>1, ConvergeAssumption
<1>6. Turns' /\ Adding' /\ SourcesComplete' /\ OracleRestores'
  BY <1>1, <1>2, <1>5 DEF oracleVars, Turns, Adding, SourcesComplete, OracleRestores
<1>7. Touring'
  BY <1>1, <1>2 DEF TablesInv, oracleVars, Touring
<1>8. Kept
  BY <1>1 DEF Kept, Standing
<1> QED
  BY <1>4, <1>6, <1>7, <1>8 DEF TablesInv

\* A round of the second tool.
LEMMA ConvergeStepKeeps ==
  ASSUME TablesInv, ConvergeStep
  PROVE  TablesInv' /\ Kept
<1>1. Next /\ UNCHANGED <<harvestVars, oracleVars>>
  BY DEF ConvergeStep
<1>2. pc \in {"round", "add"} /\ pc' # "waiting" /\ UNCHANGED <<game, bad, limit>>
  BY <1>1 DEF Next, Play, BuildFails, Save, Exhausted, Add, Skip
<1>3. opc = "idle" /\ opc' = "idle" /\ hpc = "exited" /\ hpc' = "exited" /\ limit # 0
  BY <1>1, <1>2 DEF TablesInv, Turns, harvestVars, oracleVars
<1>4. /\ file \in Numbers /\ table \in Numbers /\ candidates \in Numbers /\ round \in Nat /\ added \in Nat
      /\ \A s \in Sources : file[s] \in Nat /\ table[s] \in Nat /\ candidates[s] \in Nat
  BY Unfolded DEF Numbers
<1>5. ASSUME /\ file' \in Numbers /\ table' \in Numbers /\ candidates' \in Numbers
             /\ round' \in Nat /\ added' \in Nat
      PROVE  TableTypes' /\ OracleRestores' /\ Touring'
  BY <1>1, <1>2, <1>3, <1>5 DEF TablesInv, TableTypes, OracleRestores, Touring, harvestVars, oracleVars
<1>6. ASSUME \A s \in Sources : file'[s] >= file[s] PROVE Kept
  BY <1>2, <1>4, <1>6 DEF Kept, Standing, Has
<1>7. \A t, s : LongestAsked(t, s)' = LongestAsked(t', s')
  BY <1>2 DEF LongestAsked, Asked
<1>8. CASE Play
  <2>1. /\ table' = file /\ file' = file /\ round' = round + 1 /\ added' = 0 /\ pc' = "add"
        /\ candidates' = [s \in Sources |-> IF Has(file, s) THEN 0 ELSE LongestAsked(file, s)]
    BY <1>8 DEF Play, LongestAsked
  <2>2. candidates' \in Numbers
    <3>1. \A s \in Sources : LongestAsked(file, s) \in Nat
      BY LongestType, HarvestAssumption
    <3> QED
      BY <2>1, <3>1 DEF Numbers
  <2>3. Turns' /\ SourcesComplete'
    BY <1>2, <1>3, <1>4, <2>1 DEF Turns, SourcesComplete
  <2>4. Adding'
    <3>1. ASSUME NEW s \in Sources PROVE LongestAsked(file, s)' = LongestAsked(file, s)
      BY <1>7, <2>1
    <3> QED
      BY <1>2, <1>4, <2>1, <3>1 DEF Adding, Has, Decodes
  <2> QED
    BY <1>4, <1>5, <1>6, <2>1, <2>2, <2>3, <2>4 DEF TablesInv
<1>9. CASE BuildFails
  <2>1. pc' = "died" /\ table' = file /\ file' = file /\ round' = round + 1 /\ UNCHANGED <<candidates, added>>
    BY <1>9 DEF BuildFails
  <2>2. Turns' /\ SourcesComplete' /\ Adding'
    BY <1>2, <1>3, <1>4, <2>1 DEF Turns, SourcesComplete, Adding
  <2> QED
    BY <1>4, <1>5, <1>6, <2>1, <2>2 DEF TablesInv
<1>10. CASE Exhausted
  <2>1. pc' = "exhausted" /\ round = limit /\ UNCHANGED <<file, table, candidates, round, added>> /\ pc = "round"
    BY <1>10 DEF Exhausted
  <2>2. Turns' /\ SourcesComplete' /\ Adding'
    BY <1>2, <1>3, <2>1 DEF TablesInv, Turns, SourcesComplete, Adding
  <2> QED
    BY <1>4, <1>5, <1>6, <2>1, <2>2 DEF TablesInv
<1>11. CASE Save
  <2>1. /\ pc = "add" /\ file' = table /\ UNCHANGED <<table, candidates, round, added>>
        /\ pc' = IF added = 0 THEN "converged" ELSE "round"
        /\ \A s \in Sources : ~Has(candidates, s)
    BY <1>11 DEF Save
  <2>2. \A s \in Sources : table[s] >= file[s]
    BY <2>1 DEF TablesInv, Adding
  <2>3. Turns' /\ Adding'
    BY <1>2, <1>3, <1>4, <2>1 DEF TablesInv, Turns, Adding
  <2>4. SourcesComplete'
    <3> SUFFICES ASSUME added = 0, NEW s \in Sources,
                        LongestAsked(table, s)' # 0, Decodes(s, LongestAsked(table, s))'
                 PROVE  Has(table, s)
      BY <2>1 DEF SourcesComplete, LongestAsked
    <3>1. \A o \in Sources : table[o] = file[o]
      BY <2>1 DEF TablesInv, Adding
    <3>2. table = file
      BY <1>4, <3>1 DEF Numbers
    <3>3. LongestAsked(table, s)' = LongestAsked(file, s)
      BY <1>7, <2>1, <3>2
    <3>4. Decodes(s, LongestAsked(table, s))' <=> Decodes(s, LongestAsked(file, s))
      BY <1>2, <3>3 DEF Decodes
    <3>5. Has(file, s) \/ candidates[s] = LongestAsked(file, s)
      BY <2>1, <3>3, <3>4 DEF TablesInv, Adding
    <3> QED
      BY <2>1, <3>2, <3>3, <3>5 DEF Has
  <2> QED
    BY <1>4, <1>5, <1>6, <2>1, <2>2, <2>3, <2>4 DEF TablesInv
<1>12. ASSUME NEW s \in Sources, Add(s) \/ Skip(s)
       PROVE  TablesInv' /\ Kept
  <2>1. /\ pc = "add" /\ pc' = "add" /\ UNCHANGED <<file, round>> /\ Has(candidates, s)
        /\ candidates' = [candidates EXCEPT ![s] = 0]
        /\ \/ /\ Decodes(s, candidates[s]) /\ added' = added + 1
              /\ table' = [table EXCEPT ![s] = candidates[s]]
           \/ ~Decodes(s, candidates[s]) /\ UNCHANGED <<table, added>>
    BY <1>12 DEF Add, Skip, NextCandidate
  <2>2. candidates' \in Numbers /\ table' \in Numbers /\ added' \in Nat
    BY <1>4, <2>1 DEF Numbers
  <2>3. Turns' /\ SourcesComplete'
    BY <1>2, <1>3, <1>4, <2>1 DEF TablesInv, Turns, SourcesComplete
  <2>4. Adding'
    <3>1. ASSUME NEW o \in Sources
          PROVE  /\ table[o] >= file[o] /\ (Has(candidates, o) => file[o] = 0)
                 /\ added = 0 =>
                      /\ table[o] = file[o]
                      /\ LongestAsked(file, o) # 0 /\ Decodes(o, LongestAsked(file, o)) =>
                           Has(file, o) \/ candidates[o] = LongestAsked(file, o)
      BY <2>1 DEF TablesInv, Adding
    <3>2. ASSUME NEW o \in Sources
          PROVE  /\ table'[o] >= file[o] /\ (Has(candidates', o) => file[o] = 0)
                 /\ added' = 0 =>
                      /\ table'[o] = file[o]
                      /\ LongestAsked(file, o) # 0 /\ Decodes(o, LongestAsked(file, o)) =>
                           Has(file, o) \/ candidates'[o] = LongestAsked(file, o)
      BY <1>4, <2>1, <3>1 DEF Has, Numbers
    <3>3. ASSUME NEW o \in Sources
          PROVE  /\ LongestAsked(file, o)' = LongestAsked(file, o)
                 /\ Decodes(o, LongestAsked(file, o))' <=> Decodes(o, LongestAsked(file, o))
      BY <1>2, <1>7, <2>1 DEF Decodes
    <3> QED
      BY <2>1, <3>2, <3>3 DEF Adding, Has
  <2> QED
    BY <1>4, <1>5, <1>6, <2>1, <2>2, <2>3, <2>4 DEF TablesInv
<1> QED
  BY <1>1, <1>8, <1>9, <1>10, <1>11, <1>12 DEF Next

\* The seen lengths follow what a log adds.
LEMMA TourSees ==
  ASSUME TablesInv, NEW log, Tour(log), log \subseteq {Line(r) : r \in game} \cup Moves
  PROVE  /\ seen' \in Numbers
         /\ \A l \in met' : l.length \in Bounded
         /\ \A s \in Sources : seen'[s] = Largest({l.length : l \in {q \in met' : q.source = s}})
<1> DEFINE Old(s) == {l.length : l \in {q \in met : q.source = s}}
           Heard(s) == {l.length : l \in {q \in log : Counts(q) /\ q.source = s}}
           Met(s) == {l.length : l \in {q \in met' : q.source = s}}
<1>1. /\ \A s \in Sources : seen[s] = Largest(Old(s))
      /\ seen' = [s \in Sources |-> Largest({seen[s], requests(log)[s]})]
      /\ met' = met \cup {l \in log : Counts(l)}
  BY DEF TablesInv, Touring, Tour
<1>2. \A l \in log : Counts(l) => l.length \in Bounded
  BY Unfolded, OracleAssumption DEF Line
<1>3. \A l \in met : l.length \in Bounded
  BY Unfolded
<1>4. \A l \in met' : l.length \in Bounded
  BY <1>1, <1>2, <1>3
<1>5. MaxLength \in Nat /\ Bounded \subseteq 0 .. MaxLength
  BY HarvestAssumption DEF Bounded
<1>6. ASSUME NEW s \in Sources
      PROVE  seen'[s] = Largest(Met(s)) /\ seen'[s] \in Nat
  <2>1. Met(s) = Old(s) \cup Heard(s)
    BY <1>1
  <2>2. Old(s) \subseteq 0 .. MaxLength /\ Heard(s) \subseteq 0 .. MaxLength
    BY <1>2, <1>3, <1>5
  <2>3. requests(log)[s] = Largest(Heard(s)) /\ seen[s] = Largest(Old(s))
    BY <1>1 DEF requests
  <2>4. seen'[s] = Largest({Largest(Old(s)), Largest(Heard(s))})
    BY <1>1, <2>3
  <2> HIDE DEF Old, Heard, Met
  <2>5. Largest(Old(s) \cup Heard(s)) = Largest({Largest(Old(s)), Largest(Heard(s))})
    BY <1>5, <2>2, LargestOfBoth, Zenon
  <2>6. Old(s) \cup Heard(s) \subseteq 0 .. MaxLength
    BY <2>2
  <2>7. Largest(Old(s) \cup Heard(s)) \in 0 .. MaxLength
    BY <1>5, <2>6, LargestIs, Zenon
  <2> QED
    BY <1>5, <2>1, <2>4, <2>5, <2>7
<1>7. seen' \in Numbers
  BY <1>1, <1>6 DEF Numbers
<1> QED
  BY <1>4, <1>6, <1>7

\* What the tours write.
LEMMA WidenWrites ==
  ASSUME TablesInv, Widen
  PROVE  /\ file' = widened' /\ widened' \in Numbers
         /\ \A s \in Sources :
              /\ widened'[s] >= file[s]
              /\ seen[s] # 0 /\ Decodes(s, seen[s]) => widened'[s] >= seen[s]
              /\ widened'[s] # file[s] => widened'[s] = seen[s] /\ Decodes(s, seen[s])
<1>1. /\ widened = file /\ file' = widened'
      /\ widened' = [s \in Sources |->
           IF seen[s] # 0 /\ Decodes(s, seen[s]) THEN Largest({widened[s], seen[s]}) ELSE widened[s]]
  BY DEF TablesInv, Touring, Widen
<1>2. ASSUME NEW s \in Sources
      PROVE  /\ file[s] \in Nat /\ seen[s] \in Nat
             /\ Largest({file[s], seen[s]}) \in {file[s], seen[s]}
             /\ Largest({file[s], seen[s]}) >= file[s]
             /\ Largest({file[s], seen[s]}) >= seen[s]
  <2>1. file[s] \in Nat /\ seen[s] \in Nat
    BY Unfolded DEF Numbers
  <2> DEFINE b == file[s] + seen[s]
  <2>2. b \in Nat /\ {file[s], seen[s]} \subseteq 0 .. b
    BY <2>1
  <2> HIDE DEF b
  <2>3. Largest({file[s], seen[s]}) \in {file[s], seen[s]}
        /\ \A n \in {file[s], seen[s]} : n <= Largest({file[s], seen[s]})
    BY <2>2, LargestIs
  <2> QED
    BY <2>1, <2>3
<1> QED
  BY <1>1, <1>2 DEF Numbers

\* The third tool reads, tours and writes.
LEMMA OracleStepKeeps ==
  ASSUME TablesInv, OracleStep
  PROVE  TablesInv' /\ Kept
<1>1. /\ pc \in {"converged", "exhausted"}
      /\ UNCHANGED <<pc, game, bad, table, candidates, limit, round, added, harvestVars>>
      /\ ReadTable \/ Widen \/ \E logged \in SUBSET {Line(r) : r \in game} : Tour(logged \cup Moves)
  BY DEF OracleStep
<1>2. hpc = "exited" /\ hpc' = "exited" /\ limit # 0 /\ round # 0
  BY <1>1 DEF TablesInv, Turns, harvestVars
<1>3. ASSUME file' \in Numbers, seen' \in Numbers, widened' \in Numbers,
             \A l \in met' : l.length \in Bounded
      PROVE  TableTypes' /\ Adding'
  BY <1>1, <1>3 DEF TablesInv, TableTypes, Adding, harvestVars
<1>4. CASE ReadTable
  <2>1. opc = "idle" /\ opc' = "tour" /\ widened' = file /\ UNCHANGED <<file, tours, seen, met>>
    BY <1>4 DEF ReadTable
  <2>2. Turns' /\ Touring' /\ OracleRestores'
    BY <1>1, <1>2, <2>1 DEF TablesInv, Turns, Touring, OracleRestores, harvestVars
  <2>3. SourcesComplete'
    BY <1>1, <2>1 DEF TablesInv, SourcesComplete, Asked, Decodes
  <2>4. Kept
    BY <1>1, <2>1, Unfolded DEF Kept, Standing, Numbers
  <2> QED
    BY <1>3, <2>1, <2>2, <2>3, <2>4, Unfolded DEF TablesInv
<1>5. ASSUME NEW logged \in SUBSET {Line(r) : r \in game}, Tour(logged \cup Moves)
      PROVE  TablesInv' /\ Kept
  <2>1. opc = "tour" /\ UNCHANGED <<file, opc, widened>>
    BY <1>5 DEF Tour
  <2>2. /\ seen' \in Numbers
        /\ \A l \in met' : l.length \in Bounded
        /\ \A s \in Sources : seen'[s] = Largest({l.length : l \in {q \in met' : q.source = s}})
    BY <1>5, TourSees
  <2>3. Turns' /\ Touring' /\ OracleRestores'
    BY <1>1, <1>2, <2>1, <2>2 DEF TablesInv, Turns, Touring, OracleRestores, harvestVars
  <2>4. SourcesComplete'
    BY <1>1, <2>1 DEF TablesInv, SourcesComplete, Asked, Decodes
  <2>5. Kept
    BY <1>1, <2>1, Unfolded DEF Kept, Standing, Numbers
  <2> QED
    BY <1>3, <2>1, <2>2, <2>3, <2>4, <2>5, Unfolded DEF TablesInv
<1>6. CASE Widen
  <2>1. opc = "tour" /\ opc' = "written" /\ UNCHANGED <<tours, seen, met>>
    BY <1>6 DEF Widen
  <2>2. /\ file' = widened' /\ widened' \in Numbers
        /\ \A s \in Sources :
             /\ widened'[s] >= file[s]
             /\ seen[s] # 0 /\ Decodes(s, seen[s]) => widened'[s] >= seen[s]
             /\ widened'[s] # file[s] => widened'[s] = seen[s] /\ Decodes(s, seen[s])
    BY <1>6, WidenWrites
  <2>3. table = file
    BY <1>1, <1>2, <2>1 DEF TablesInv, Turns
  <2>4. Turns' /\ Touring'
    BY <1>1, <1>2, <2>1, <2>2 DEF TablesInv, Turns, Touring, harvestVars
  <2>5. OracleRestores'
    <3> SUFFICES ASSUME NEW s \in Sources
                 PROVE  LET n == Largest({l.length : l \in {q \in met : q.source = s}})
                        IN  /\ n # 0 /\ Decodes(s, n) => file'[s] >= n
                            /\ file'[s] # table[s] => file'[s] = n /\ Decodes(s, n)
      BY <1>1, <2>1 DEF OracleRestores, Decodes
    <3>1. seen[s] = Largest({l.length : l \in {q \in met : q.source = s}})
      BY DEF TablesInv, Touring
    <3> QED
      BY <2>2, <2>3, <3>1
  <2>6. \A s \in Sources : file[s] \in Nat /\ file'[s] \in Nat /\ file'[s] >= file[s]
    BY <2>2, Unfolded DEF Numbers
  <2>7. SourcesComplete'
    <3> SUFFICES ASSUME pc = "converged", NEW s \in Sources,
                        LongestAsked(table, s) # 0, Decodes(s, LongestAsked(table, s))
                 PROVE  Has(file', s)
      BY <1>1 DEF SourcesComplete, LongestAsked, Asked, Decodes
    <3>1. Has(file, s)
      BY DEF TablesInv, SourcesComplete, LongestAsked
    <3> QED
      BY <2>6, <3>1 DEF Has
  <2>8. Kept
    BY <1>1, <2>6 DEF Kept, Standing, Has
  <2> QED
    BY <1>3, <2>1, <2>2, <2>4, <2>5, <2>7, <2>8, Unfolded DEF TablesInv
<1> QED
  BY <1>1, <1>4, <1>5, <1>6

\* Every step of the three.
LEMMA TablesStep ==
  ASSUME TablesInv, TableNext
  PROVE  TablesInv' /\ Kept
  BY HarvestStepKeeps, HandOverKeeps, ConvergeStepKeeps, OracleStepKeeps DEF TableNext

\* And none of them.
LEMMA TablesStutter ==
  ASSUME TablesInv, UNCHANGED allVars
  PROVE  TablesInv'
<1>1. UNCHANGED vars /\ UNCHANGED harvestVars /\ UNCHANGED oracleVars
  BY DEF allVars
<1>2. TableTypes' /\ Turns' /\ Adding' /\ Touring'
  BY <1>1 DEF TablesInv, vars, harvestVars, oracleVars, TableTypes, Turns, Adding, Touring,
     LongestAsked, Asked, Decodes
<1>3. SourcesComplete' /\ OracleRestores'
  BY <1>1 DEF TablesInv, vars, harvestVars, oracleVars, SourcesComplete, OracleRestores, Asked, Decodes
<1> QED
  BY <1>2, <1>3 DEF TablesInv

\* What is in memory, on disk and in the logs fits the tool at work and what it
\* has left to do, through both hand-overs.
THEOREM TablesInvariant == TableSpec => []TablesInv
<1>1. TableInit => TablesInv
  <2> SUFFICES ASSUME TableInit PROVE TablesInv
    OBVIOUS
  <2>1. /\ hpc = "drive" /\ hgame \in HarvestGames /\ htable \in Tables /\ variant = 1
        /\ hwanted = NoTable
    BY DEF TableInit, H!Init, NoTable
  <2>2. /\ opc = "idle" /\ seen = NoTable /\ widened = NoTable /\ met = {}
        /\ pc = "waiting" /\ game = {} /\ file = NoTable /\ table = NoTable
        /\ candidates = NoTable /\ round = 0 /\ added = 0
    BY DEF TableInit, OracleInit, Nothing, NoTable
  <2>3. NoTable \in Numbers /\ Tables \subseteq Numbers /\ 1 \in 1 .. Variants
    BY ConvergeAssumption, HarvestAssumption DEF NoTable, Numbers
  <2>4. TableTypes /\ Turns /\ Adding
    BY <2>1, <2>2, <2>3 DEF TableTypes, Turns, Adding
  <2>5. Touring
    BY <2>2 DEF Touring, Largest, NoTable
  <2>6. SourcesComplete /\ OracleRestores
    BY <2>2 DEF SourcesComplete, OracleRestores
  <2> QED
    BY <2>4, <2>5, <2>6 DEF TablesInv
<1>2. TablesInv /\ [TableNext]_allVars => TablesInv'
  BY TablesStep, TablesStutter
<1> QED
  BY <1>1, <1>2, PTL DEF TableSpec

\* No step of any tool loses a source, and no entry on disk is shortened.
THEOREM SourcesStay == TableSpec => SourcesKept
<1>1. TablesInv /\ [TableNext]_allVars => [Kept]_allVars
  BY TablesStep
<1>2. [Kept]_allVars => [\A s \in Sources :
          /\ Has(Standing, s) => Has(Standing', s)
          /\ pc # "waiting" => file'[s] >= file[s]]_allVars
  BY DEF Kept
<1> QED
  BY <1>1, <1>2, TablesInvariant, PTL DEF TableSpec, SourcesKept

\* A converged table has every source the cartridge asks for, if its longest
\* request decodes.
THEOREM SourcesAreComplete == TableSpec => []SourcesComplete
<1>1. TablesInv => SourcesComplete
  BY DEF TablesInv
<1> QED
  BY <1>1, TablesInvariant, PTL

\* The tours leave every source as long as any log asked, if that decodes, and
\* change nothing else.
THEOREM OracleRestored == TableSpec => []OracleRestores
<1>1. TablesInv => OracleRestores
  BY DEF TablesInv
<1> QED
  BY <1>1, TablesInvariant, PTL
=============================================================================
