------------------------------ MODULE MCTools ------------------------------
(* Small inputs of every tool: two models and two dumps, sound RAM of ten   *)
(* cells, three loads of two lists, outputs and references of a few bytes   *)
(* over a two-letter alphabet.                                              *)
EXTENDS Tools

\* The manifest: one entry accepts a content, one nothing yet, and one content
\* is known to be corrupt.
TwoAccepted == [a \in {"usa", "jp", "proto"} |->
                  CASE a = "usa" -> {"u"} [] a = "jp" -> {"j"} [] a = "proto" -> {}]
ContentSize == [c \in {"u", "j", "bad", "same size", "odd size"} |-> IF c = "odd size" THEN 3 ELSE 4]
Dumps == {Absent} \cup [is : DOMAIN ContentSize, header : BOOLEAN]

Well == [dir |-> [p \in PACKAGES |-> "filled"], imports |-> [p \in PACKAGES |-> TRUE],
         inner |-> [p \in PACKAGES |-> "well"], python |-> TRUE, git |-> TRUE, manifest |-> TRUE, decodes |-> TRUE,
         tools |-> {"git", "docker"},
         dumps |-> [a \in Artifacts |-> [is |-> IF a = "jp" THEN "j" ELSE "u", header |-> FALSE]],
         names |-> {"python3"}, terminal |-> "utf8", utf8Mode |-> FALSE, locale |-> "utf8",
         files |-> <<"lf">>, sample |-> 2, belowDot |-> FALSE, tracked |-> 5, generated |-> 0,
         limit |-> 20, room |-> 4, disk |-> "enough", raising |-> {}]

SomeMachines ==
  {[Well EXCEPT !.dir = d, !.imports = i, !.inner = n, !.decodes = x, !.python = (d["sdd1"] # "empty")] :
     d \in [PACKAGES -> {"absent", "empty", "filled"}], i \in [PACKAGES -> BOOLEAN],
     n \in [PACKAGES -> {"none", "lacks", "raises", "unwell", "well"}], x \in BOOLEAN}
  \cup {[Well EXCEPT !.dumps["usa"] = u, !.dumps["jp"] = j, !.manifest = x, !.tools = t] :
          u, j \in Dumps, x \in BOOLEAN, t \in {{"git"}, {"git", "docker"}}}
  \cup {[Well EXCEPT !.files = f, !.belowDot = b, !.tracked = t, !.generated = g, !.tools = k, !.raising = r] :
          f \in [1 .. 3 -> {"lf", "crlf", "unreadable"}], b \in BOOLEAN, t, g \in {5, 15, 16, 18},
          k \in {{}, {"git"}}, r \in {{}, {"path"}}}
  \cup {[Well EXCEPT !.names = n, !.terminal = e, !.utf8Mode = u, !.locale = l, !.disk = d] :
          n \in {{}, {"py"}}, e, l \in {"utf8", "none", "cp437"}, u \in BOOLEAN, d \in {"enough", "little", "unknown"}}

\* Two directory entries of two cells, then six cells of blocks of two.
SomeBanks ==
  {[ram |-> [n \in 0 .. 9 |-> CASE n = 0 -> d[1] [] n = 1 -> d[2] [] n = 2 -> d[3] [] n = 3 -> d[4]
                                [] OTHER -> IF n \in flags THEN 1 ELSE 0],
    written |-> first .. first + more] :
     d \in {4, 5, 8} \X {4, 6, 7} \X {4, 6} \X {4, 6}, flags \in SUBSET (4 .. 9),
     first \in 0 .. 9, more \in {0, 1}}
  \cup {[ram |-> [n \in 0 .. 8 |-> 4], written |-> {4}]}

ListSize == [i \in 1 .. 4 |-> IF i \in {1, 4} THEN 2 ELSE 1]
SomeWalks == UNION {[1 .. n -> [list : {0, 1, 2}, groups : {<<3, 4>>, <<4, 3>>}]] : n \in 1 .. 3}

Letters(n) == [1 .. n -> {0, 1}]
AsSum(w, slots) == FoldLeft(LAMBDA sum, v : sum + v, 0, w) % slots
Outs == UNION {Letters(n) : n \in {1, 2, 4, 5}}
SomeSearches ==
  {[outs |-> <<o, <<0, 1>>, p>>, reference |-> r, slots |-> s] :
     o \in Outs, p \in {<<1, 0, 1>>, <<1, 1>>}, r \in Letters(5) \cup {<<>>, <<1>>}, s \in {1, 3}}
SomeTagged == {[tagged |-> t, size |-> z] : t \in [1 .. 4 -> 0 .. 4], z \in {-1} \cup 0 .. 5}
SomeChunked == {[original |-> o, added |-> a] : o \in Letters(4) \cup Letters(5), a \in Letters(2) \cup Letters(3)}

\* Payloads that fit no triple, wrap the index and start with the byte that
\* ends a list.
Payload(n) == [k \in 1 .. n |-> (5 * k + 1 + k \div 7) % 8]
SomePayloads == {Payload(n) : n \in {1, 2, 3, 5, 24, 26, 28}} \cup {<<0>>, <<0, 1, 2, 3, 4>>}

\* Offsets 0 and 1; the second stream may give out.
SomeCompared ==
  {[cases |-> c, mine |-> m, outs |-> o, run |-> r] :
     c \in UNION {[1 .. n -> [offset : {0, 1}, length : 0 .. 2]] : n \in 0 .. 3},
     m \in {[k \in {0, 1} |-> <<0, 1>>], [k \in {0, 1} |-> IF k = 0 THEN <<0, 1>> ELSE <<1>>]},
     o \in {[k \in {0, 1} |-> <<0, 1>>], [k \in {0, 1} |-> <<k, 1>>], [k \in {0, 1} |-> <<0, 1 - k>>]},
     r \in {[exit |-> 0, lost |-> 0], [exit |-> 0, lost |-> 1], [exit |-> 1, lost |-> 0]}}

\* Cartridges of five cells and a checksum; the hook can go to a different
\* cell in each, and the assembler may write what is there already.
Cartridge(cells) == write_checksum(cells \o <<0>>)
Retails ==
  {<<Cartridge(<<0, 0, 2, 0, 0>>), Cartridge(<<0, 0, 0, 0, 2>>)>>,
   <<Cartridge(<<0, 0, 2, 1, 2>>), Cartridge(<<0, 0, 2, 0, 2>>)>>,
   <<Cartridge(<<0, 1, 2, 0, 1>>), Cartridge(<<0, 0, 1, 2, 0>>)>>}
Assembled(x) == {write_checksum([n \in DOMAIN x |-> IF n \in S THEN 1 ELSE x[n]]) : S \in SUBSET (1 .. Cells)}
OldTables == {[patch |-> {}, hook |-> {}, sites |-> {}, plumbed |-> FALSE],
              [patch |-> {[at |-> 1, data |-> <<1>>]}, hook |-> {<<1>>}, sites |-> {3, 4}, plumbed |-> TRUE]}
ByRegion(x, y) == [r \in Regions |-> IF r = "jp" THEN x ELSE y]
SomeFreezes ==
  UNION {{[retail |-> ByRegion(p[1], p[2]), assembled |-> ByRegion(a, b), check |-> c, source |-> s] :
            a \in Assembled(p[1]), b \in Assembled(p[2]), c \in BOOLEAN, s \in OldTables} : p \in Retails}

\* Tiles of two bytes: an empty entry, a short one, an odd one, whole ones.
Sheet(offset, length) == [offset |-> offset, length |-> length]
SomeSheets ==
  {[name |-> n, tables |-> [usa |-> <<Sheet(0, 1), Sheet(0, k), Sheet(1, 4), Sheet(0, 5)>>, jp |-> <<Sheet(1, 4)>>],
    limit |-> l, outs |-> [at \in {0, 1} |-> IF at = 0 THEN o ELSE <<0, 1, 0, 1>>], noise |-> z] :
     n \in {"usa", "proto"}, k \in {4, 6}, l \in {NoLimit, <<-1>>, <<0>>, <<1>>, <<2>>, <<3>>}, o \in Letters(5) \cup Letters(6),
     z \in {<<0, 0, 0, 0, 0, 0>>, <<0, 1, 1, 0, 1, 1>>}}
Probe == [n \in {1} |-> 0]
=============================================================================
