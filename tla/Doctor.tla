------------------------------- MODULE Doctor -------------------------------
(***************************************************************************)
(* doctor.py, environment.py, hardware.py and tools/identify.py: what is   *)
(* looked at on a machine, what each check answers and which exit code     *)
(* comes of it.  A machine is a record of facts m; a dump is a content     *)
(* with or without a copier header.  An exit code of DIED is a traceback.  *)
(***************************************************************************)
EXTENDS Integers, Sequences, FiniteSets, FiniteSetsExt, SequencesExt

CONSTANTS
  PACKAGES,     \* the models pinned as submodules
  Artifacts,    \* the dumps artifacts.manifest.json declares
  Accepted,     \* the contents it accepts for each of them
  KnownBad,     \* the contents it names as corrupt
  ContentSizes  \* bytes of a content

\* The two models that the tools themselves import.
ASSUME DoctorPackages == {"romimage", "sdd1"} \subseteq PACKAGES

DIED == 70
Absent == [is |-> "absent", header |-> FALSE]

-----------------------------------------------------------------------------
(* hardware.py: a submodule's directory is absent, empty or filled. *)

is_checked_out(m, p) == m.dir[p] = "filled"
missing_models(m) == {p \in PACKAGES : ~is_checked_out(m, p)}

\* install() puts every model on the path; whether one then imports is a fact
\* of the machine.  Without git metadata there is nothing to update.
install(m, p) == m.imports[p]
checkout_message(m) == [named |-> missing_models(m), repair |-> IF m.git THEN "update" ELSE "clone"]

\* load() refuses a model that is not checked out and names every one of them;
\* otherwise it makes all of them importable and imports the one asked for.
load(m, p) ==
  IF ~is_checked_out(m, p) THEN [raised |-> TRUE, said |-> checkout_message(m)]
  ELSE [raised |-> ~install(m, p), said |-> [named |-> {}, repair |-> "none"]]

-----------------------------------------------------------------------------
(* tools/identify.py *)

KeepsStub(dump) == IF dump.header THEN "odd size" ELSE dump.is
strip_copier_stub(dump) == dump.is
AcceptedAnywhere == UNION {Accepted[a] : a \in Artifacts}

\* The tests are made in this order and the first that holds decides.
diagnose(m, a) ==
  LET identity == strip_copier_stub(m.dumps[a])
  IN  IF Accepted[a] = {} THEN "no digest published"
      ELSE IF m.dumps[a] = Absent THEN "missing"
      ELSE IF identity \in Accepted[a] THEN "ok"
      ELSE IF identity \in KnownBad THEN "known bad dump"
      ELSE IF identity \in AcceptedAnywhere THEN "another entry"
      ELSE IF ContentSizes[identity] \notin {ContentSizes[c] : c \in Accepted[a]} THEN "wrong size"
      ELSE "wrong content"

BLOCKING_STATES == {"wrong size", "wrong content", "known bad dump", "another entry"}
blocking(state) == state \in BLOCKING_STATES

\* What explain() prints under a finding: the digests where there was a file
\* to read, and how to measure one where a right file is wanted.
explain(state) ==
  [digests |-> state \notin {"no digest published", "missing"},
   commands |-> blocking(state) \/ state = "missing",
   hint |-> blocking(state)]

\* The exit code of identify.py for the files named, all of them by default.
identify(m, wanted) ==
  LET chosen == IF wanted = {} THEN Artifacts ELSE Artifacts \cap wanted
  IN  IF load(m, "romimage").raised THEN DIED
      ELSE IF chosen = {} THEN 2
      ELSE IF (\E a \in chosen : blocking(diagnose(m, a)))
              \/ (\A a \in chosen : diagnose(m, a) # "ok") THEN 1
      ELSE 0

-----------------------------------------------------------------------------
(* environment.py.  A check answers; guarded() turns a raise into a fault. *)

guarded(m, check, ok) == ok /\ check \notin m.raising

interpreter(m) == m.names # {}
output_encoding(m) == m.terminal = "utf8"
locale_setting(m) == m.utf8Mode \/ m.locale = "utf8"
filesystem_case(m) == TRUE

\* The text files in order, until `sample` of them have been read.  The test for
\* a directory whose name starts with a dot looks at the whole path, the
\* checkout's too.
LookAt(acc, file, sample) ==
  IF acc.looked >= sample \/ file = "unreadable" THEN acc
  ELSE [looked |-> acc.looked + 1, converted |-> acc.converted + (IF file = "crlf" THEN 1 ELSE 0)]
line_endings(m) ==
  m.belowDot \/ FoldLeft(LAMBDA acc, file : LookAt(acc, file, m.sample),
                         [looked |-> 0, converted |-> 0], m.files).converted = 0

\* The longest path decides, and a generated one is never a fault.
path_budget(m) ==
  LET longest == Max({m.tracked, m.generated})
  IN  m.limit - longest > m.room \/ m.generated > m.tracked

free_space(m) == m.disk = "enough"
tool(m, name, required) == name \in m.tools \/ ~required

\* Every observation, the machine itself among them, which is always well.
observations(m) ==
  [machine |-> guarded(m, "machine", TRUE),
   interpreter |-> guarded(m, "interpreter", interpreter(m)),
   output |-> guarded(m, "output", output_encoding(m)),
   default |-> guarded(m, "default", locale_setting(m)),
   case |-> guarded(m, "case", filesystem_case(m)),
   endings |-> guarded(m, "endings", line_endings(m)),
   path |-> guarded(m, "path", path_budget(m)),
   space |-> guarded(m, "space", free_space(m)),
   git |-> guarded(m, "git", tool(m, "git", TRUE))]

Checks == {"machine", "interpreter", "output", "default", "case", "endings", "path", "space", "git"}

environment(m) ==
  IF \A check \in DOMAIN observations(m) : observations(m)[check] THEN 0 ELSE 1

-----------------------------------------------------------------------------
(* doctor.py.  A finding is what it is about and whether it is well. *)

Finding(about, ok) == [about |-> about, ok |-> ok]

python(m) == {Finding(<<"python", "python">>, m.python), Finding(<<"project", "project">>, TRUE)}
model(m, p) == Finding(<<"model", p>>, is_checked_out(m, p) /\ install(m, p))

cartridges(m) ==
  IF ~m.manifest THEN {Finding(<<"cartridge", "manifest">>, FALSE)}
  ELSE {Finding(<<"cartridge", a>>, diagnose(m, a) \in {"ok", "no digest published"})
        : a \in Artifacts}

decompressor(m) ==
  Finding(<<"decompressor", "sdd1">>,
          is_checked_out(m, "sdd1") /\ m.imports["sdd1"] /\ m.decodes)

tools(m) == {Finding(<<"tool", "docker">>, "docker" \in m.tools)}

\* A model's own doctor: none, one whose import fails for want of a module of
\* its own, one that raises anything else, or one that answers.  Its package is
\* imported first, and an empty directory has none.
ask_each(m) ==
  LET asked == {p \in PACKAGES : m.dir[p] # "absent"}
      found == {p \in asked : is_checked_out(m, p) /\ m.inner[p] \notin {"none", "lacks"}}
  IN  [raised |-> \E p \in found : m.inner[p] = "raises" \/ ~m.imports[p], found |-> found]

beneath(m) ==
  IF ask_each(m).raised THEN {Finding(<<"beneath", "all">>, FALSE)}
  ELSE {Finding(<<"beneath", p>>, m.inner[p] = "well") : p \in ask_each(m).found}

examine(m) ==
  python(m) \cup {model(m, p) : p \in PACKAGES}
    \cup cartridges(m) \cup {decompressor(m)} \cup tools(m) \cup beneath(m)

\* What is printed: a line for everything on the machine and everything here.
report(m) ==
  [machine |-> observations(m), findings |-> examine(m),
   unwell |-> {f \in examine(m) : ~f.ok}]

\* identify.py loads the image model when it is imported, and doctor.py imports
\* it before it looks at anything.
doctor(m) ==
  IF load(m, "romimage").raised THEN DIED
  ELSE IF report(m).unwell # {} THEN 1 ELSE 0

-----------------------------------------------------------------------------
\* What there is to know of a machine.
IsMachine(m) ==
  /\ {m.python, m.manifest, m.decodes, m.belowDot} \subseteq BOOLEAN
  /\ \A p \in PACKAGES :
       m.imports[p] \in BOOLEAN /\ m.inner[p] \in {"none", "lacks", "raises", "unwell", "well"}
  /\ m.files \in Seq({"lf", "crlf", "unreadable"}) /\ m.sample \in Nat
  /\ {m.tracked, m.generated, m.limit, m.room} \subseteq Int
  /\ m.raising \subseteq Checks

\* What a build and its checks go on to use: an interpreter, every model, the
\* right dump wherever one is published, a decompressor that runs, docker.
Ready(m) ==
  /\ m.python /\ m.manifest /\ m.decodes /\ "docker" \in m.tools
  /\ \A p \in PACKAGES : ~load(m, p).raised /\ m.inner[p] \notin {"raises", "unwell"}
  /\ \A a \in Artifacts : Accepted[a] # {} => m.dumps[a] # Absent /\ m.dumps[a].is \in Accepted[a]

\* The doctor (doctor.main) answers zero exactly on a machine the build will
\* find ready, whatever is wrong elsewhere and with or without a copier header
\* on a dump; it gives no answer only where no image can be read at all; and it
\* never contradicts identify.py about a dump.
DoctorForesees(m) ==
  /\ (doctor(m) = 0) <=> Ready(m)
  /\ (doctor(m) = DIED) <=> load(m, "romimage").raised
  /\ doctor(m) = 0 => \A a \in Artifacts : Accepted[a] # {} => identify(m, {a}) = 0
  /\ identify(m, {}) = 0 /\ m.manifest =>
       \A f \in examine(m) : f.about[1] = "cartridge" =>
          f.ok \/ diagnose(m, f.about[2]) = "missing"

\* The machine is called well (environment.main) only if the text files looked
\* at have line feeds and a tracked path leaves a checkout its room, unless the
\* tree lies below a dot directory or a generated path is longer still; and a
\* check that raises is a fault and not the end of the report.
MachineForeseen(m) ==
  environment(m) = 0 =>
    /\ m.raising = {} /\ "git" \in m.tools
    /\ m.belowDot \/ \A k \in DOMAIN m.files : m.files[k] = "crlf" =>
         Cardinality({j \in 1 .. k - 1 : m.files[j] # "unreadable"}) >= m.sample
    /\ m.tracked + m.room < m.limit \/ m.generated > m.tracked
=============================================================================
