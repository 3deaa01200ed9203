----------------------------- MODULE FilesProofs -----------------------------
(***************************************************************************)
(* Proofs about the files that c2k writes, for any number of commands, any *)
(* paths of keys and any interleaving, kill, failure and power loss.       *)
(***************************************************************************)
EXTENDS Files, TLAPS

\* Where the two halves of the invariant have something to say.
HoldsPrivate == {"fill private", "sync private", "create public", "fill public",
                 "sync public", "undo"}
HoldsPublic == {"fill public", "sync public"}
PrivateSynced == {"create public", "fill public", "sync public"}
Published == {"remove, ok", "ok", "dead"}

\* While a keygen works on a file the name of it refers to it.
Held(p) ==
    /\ pc[p] \in HoldsPrivate => dir[names[p].private] = <<p, "private">>
    /\ pc[p] \in HoldsPublic => dir[names[p].public] = <<p, "public">>
    /\ pc[p] \in PrivateSynced => content[<<p, "private">>] = "durable"

\* What Out may refer to was synced, by a writer that has renamed it.
Whole(i) ==
    /\ i[1] \in Writer /\ i[2] = "temp"
    /\ content[i] = "durable"
    /\ pc[i[1]] \in Published

PastIsWhole ==
    /\ \A f \in Path : None \in past[f] /\ dir[f] \in past[f]
    /\ \A i \in past[Out] \ {None} : Whole(i)
    /\ \A p \in Writer : pc[p] = "rename" => content[<<p, "temp">>] = "durable"

IInv ==
    /\ TypeOK
    /\ \A p \in Keygen : Held(p)
    /\ PastIsWhole

\* The places that a process may be at.
Code(p) == IF p \in Keygen THEN KeygenCode ELSE WriterCode

LEMMA CodeType ==
    ASSUME NEW p \in Process
    PROVE  Code(p) \subseteq KeygenCode \cup WriterCode
BY DEF Code

LEMMA GotoFacts ==
    ASSUME TypeOK, NEW p \in Process, NEW from, NEW to \in Code(p), Goto(p, from, to)
    PROVE  /\ pc[p] = from /\ pc'[p] = to
           /\ \A q \in Process : q # p => pc'[q] = pc[q]
           /\ names' = names
           /\ pc' \in [Process -> KeygenCode \cup WriterCode]
           /\ \A q \in Keygen : pc'[q] \in KeygenCode
           /\ \A q \in Writer : pc'[q] \in WriterCode
<1>1. /\ pc[p] = from /\ pc'[p] = to
      /\ \A q \in Process : q # p => pc'[q] = pc[q]
      /\ names' = names
      /\ pc' \in [Process -> KeygenCode \cup WriterCode]
  BY CodeType DEF TypeOK, Goto
<1>2. QED
  BY <1>1, FilesAssumption DEF TypeOK, Code, Process

LEMMA PointFacts ==
    ASSUME TypeOK, NEW f \in Path, NEW j \in Inode, Point(f, j)
    PROVE  /\ dir' \in [Path -> Inode \cup {None}] /\ dir'[f] = j
           /\ \A g \in Path : g # f => dir'[g] = dir[g]
           /\ past' \in [Path -> SUBSET (Inode \cup {None})]
           /\ past'[f] = past[f] \cup {j}
           /\ \A g \in Path : g # f => past'[g] = past[g]
BY DEF TypeOK, Point

LEMMA InodeFacts ==
    /\ \A p \in Process, w \in Which : <<p, w>> \in Inode /\ <<p, w>> # None
    /\ \A i \in Inode : i = <<i[1], i[2]>> /\ i[1] \in Process
    /\ Which = {"private", "public", "temp"}
    /\ State = {"none", "partial", "whole", "durable"}
    /\ Out \in Path /\ KeyPath \subseteq Path /\ Out \notin KeyPath
BY FilesAssumption DEF Inode, Which, State, Path

LEMMA PutFacts ==
    ASSUME TypeOK, NEW p \in Process, NEW w \in Which, NEW s \in State, Put(p, w, s)
    PROVE  /\ content' \in [Inode -> State]
           /\ content'[<<p, w>>] = s
           /\ \A i \in Inode : i # <<p, w>> => content'[i] = content[i]
<1>1. <<p, w>> \in Inode
  BY InodeFacts
<1>2. QED
  BY <1>1 DEF TypeOK, Put

LEMMA NamesType ==
    ASSUME TypeOK, NEW p \in Keygen
    PROVE  /\ names[p].private \in KeyPath /\ names[p].public \in KeyPath
           /\ p \in Process /\ p \notin Writer
BY FilesAssumption DEF TypeOK, Process

\* A step of one process leaves the other processes' halves of the invariant
\* alone if it takes no name from a keygen and changes only its own content.
LEMMA HeldByOthers ==
    ASSUME IInv, NEW p \in Process, NEW q \in Keygen, q # p,
           names' = names, pc'[q] = pc[q],
           pc[q] \in HoldsPrivate => dir'[names[q].private] = dir[names[q].private],
           pc[q] \in HoldsPublic => dir'[names[q].public] = dir[names[q].public],
           content'[<<q, "private">>] = content[<<q, "private">>]
    PROVE  Held(q)'
<1>1. Held(q)
  BY DEF IInv
<1>2. QED
  BY <1>1 DEF Held

\* A step that changes no file.
LEMMA QuietStep ==
    ASSUME IInv, NEW p \in Process, NEW from, NEW to \in Code(p),
           Goto(p, from, to), UNCHANGED files,
           to \in HoldsPrivate => from \in HoldsPrivate,
           to \in HoldsPublic => from \in HoldsPublic,
           to \in PrivateSynced => from \in PrivateSynced,
           from \in Published => to \in Published,
           to # "rename"
    PROVE  IInv'
<1>1. TypeOK'
  BY GotoFacts DEF IInv, TypeOK, files
<1>g. /\ pc[p] = from /\ pc'[p] = to /\ names' = names
      /\ \A q \in Process : q # p => pc'[q] = pc[q]
  BY GotoFacts DEF IInv
<1>2. ASSUME NEW q \in Keygen PROVE Held(q)'
  <2>1. Held(q) /\ q \in Process
    BY NamesType DEF IInv
  <2>2. QED
    BY <1>g, <2>1 DEF Held, files
<1>3. PastIsWhole'
  <2>1. PastIsWhole /\ Writer \subseteq Process
    BY DEF IInv, Process
  <2>2. QED
    BY <1>g, <2>1 DEF PastIsWhole, Whole, files
<1>4. QED
  BY <1>1, <1>2, <1>3 DEF IInv

\* A step in which a process changes the content of a file of its own.
LEMMA ContentStep ==
    ASSUME IInv, NEW p \in Process, NEW from, NEW to \in Code(p), NEW w \in Which,
           NEW s \in State,
           Goto(p, from, to), Put(p, w, s), UNCHANGED <<dir, past, kept, lost>>,
           temp' \subseteq Process,
           p \in Keygen <=> w # "temp",
           to \in HoldsPrivate => from \in HoldsPrivate,
           to \in HoldsPublic => from \in HoldsPublic,
           to \in PrivateSynced => IF w = "private" THEN s = "durable"
                                   ELSE from \in PrivateSynced,
           from \notin Published,
           to = "rename" => w = "temp" /\ s = "durable"
    PROVE  IInv'
<1>g. /\ pc[p] = from /\ pc'[p] = to /\ names' = names
      /\ \A q \in Process : q # p => pc'[q] = pc[q]
  BY GotoFacts DEF IInv
<1>c. /\ content'[<<p, w>>] = s
      /\ \A i \in Inode : i # <<p, w>> => content'[i] = content[i]
  BY PutFacts DEF IInv
<1>1. TypeOK'
  BY GotoFacts, PutFacts DEF IInv, TypeOK
<1>2. ASSUME NEW q \in Keygen PROVE Held(q)'
  <2>1. Held(q) /\ q \in Process /\ <<q, "private">> \in Inode
    BY NamesType, InodeFacts DEF IInv
  <2>2. CASE q # p
    BY <1>g, <1>c, <2>1, <2>2, HeldByOthers
  <2>3. CASE q = p /\ w = "private"
    BY <1>g, <1>c, <2>1, <2>3 DEF Held
  <2>4. CASE q = p /\ w # "private"
    BY <1>g, <1>c, <2>1, <2>4 DEF Held
  <2>5. QED
    BY <2>2, <2>3, <2>4
<1>3. PastIsWhole'
  <2>1. PastIsWhole /\ Writer \subseteq Process /\ past[Out] \subseteq Inode \cup {None}
    BY InodeFacts DEF IInv, Process, TypeOK
  <2>2. ASSUME NEW i \in past[Out] \ {None} PROVE Whole(i)'
    <3>1. Whole(i) /\ i \in Inode
      BY <2>1, <2>2 DEF PastIsWhole
    <3>2. i[1] # p
      BY <3>1, <1>g DEF Whole
    <3>3. i # <<p, w>>
      BY <3>2
    <3>4. QED
      BY <1>g, <1>c, <2>1, <3>1, <3>2, <3>3 DEF Whole
  <2>3. ASSUME NEW q \in Writer, pc'[q] = "rename"
        PROVE  content'[<<q, "temp">>] = "durable"
    <3>1. <<q, "temp">> \in Inode
      BY <2>1, InodeFacts
    <3>2. CASE q = p
      BY <1>g, <1>c, <2>3, <3>2
    <3>3. CASE q # p
      BY <1>g, <1>c, <2>1, <2>3, <3>1, <3>3 DEF PastIsWhole
    <3>4. QED
      BY <3>2, <3>3
  <2>4. QED
    BY <2>1, <2>2, <2>3 DEF PastIsWhole
<1>4. QED
  BY <1>1, <1>2, <1>3 DEF IInv

\* keygen makes one of its two files, where there is none.
LEMMA CreateStep ==
    ASSUME IInv, NEW p \in Keygen, NEW from, NEW to \in KeygenCode,
           NEW w \in {"private", "public"}, NEW f \in KeyPath, dir[f] = None,
           Goto(p, from, to), Point(f, <<p, w>>), Put(p, w, "partial"),
           UNCHANGED <<temp, kept, lost>>,
           f = IF w = "private" THEN names[p].private ELSE names[p].public,
           to \in HoldsPrivate => from \in HoldsPrivate \/ w = "private",
           to \in HoldsPublic => w = "public",
           to \in PrivateSynced => from \in PrivateSynced /\ w = "public"
    PROVE  IInv'
<1>t. /\ p \in Process /\ p \notin Writer /\ w \in Which /\ "partial" \in State
      /\ f \in Path /\ f # Out /\ <<p, w>> \in Inode /\ to \in Code(p)
  BY NamesType, InodeFacts, FilesAssumption DEF IInv, Code
<1>g. /\ pc[p] = from /\ pc'[p] = to /\ names' = names
      /\ \A q \in Process : q # p => pc'[q] = pc[q]
  BY <1>t, GotoFacts DEF IInv
<1>c. /\ content'[<<p, w>>] = "partial"
      /\ \A i \in Inode : i # <<p, w>> => content'[i] = content[i]
  BY <1>t, PutFacts DEF IInv
<1>d. /\ dir'[f] = <<p, w>>
      /\ \A g \in Path : g # f => dir'[g] = dir[g]
      /\ past'[f] = past[f] \cup {<<p, w>>}
      /\ \A g \in Path : g # f => past'[g] = past[g]
  BY <1>t, PointFacts DEF IInv
<1>1. TypeOK'
  BY <1>t, GotoFacts, PutFacts, PointFacts DEF IInv, TypeOK
<1>2. ASSUME NEW q \in Keygen PROVE Held(q)'
  <2>1. /\ Held(q) /\ q \in Process
        /\ names[q].private \in Path /\ names[q].public \in Path
        /\ <<q, "private">> \in Inode /\ <<q, "private">> # None
        /\ <<q, "public">> # None
    BY NamesType, InodeFacts DEF IInv
  <2>2. CASE q # p
    <3>1. pc[q] \in HoldsPrivate => names[q].private # f
      BY <2>1 DEF Held
    <3>2. pc[q] \in HoldsPublic => names[q].public # f
      BY <2>1 DEF Held
    <3>3. QED
      BY <1>t, <1>g, <1>c, <1>d, <2>1, <2>2, <3>1, <3>2, HeldByOthers
  <2>3. CASE q = p /\ w = "private"
    BY <1>g, <1>c, <1>d, <2>1, <2>3 DEF Held, HoldsPublic, PrivateSynced
  <2>4. CASE q = p /\ w = "public"
    <3>1. from \in HoldsPrivate => names[p].private # f
      BY <1>g, <2>1, <2>4 DEF Held
    <3>2. /\ pc'[p] \in HoldsPrivate => from \in HoldsPrivate
          /\ pc'[p] \in PrivateSynced => from \in PrivateSynced
      BY <1>g, <2>4
    <3>3. content'[<<p, "private">>] = content[<<p, "private">>]
      BY <1>c, <2>1, <2>4
    <3>4. from \in HoldsPrivate => dir'[names[p].private] = dir[names[p].private]
      BY <1>d, <2>1, <2>4, <3>1
    <3>5. QED
      BY <1>g, <1>d, <2>1, <2>4, <3>2, <3>3, <3>4 DEF Held
  <2>5. QED
    BY <2>2, <2>3, <2>4
<1>3. PastIsWhole'
  <2>1. PastIsWhole /\ Writer \subseteq Process /\ past[Out] \subseteq Inode \cup {None}
    BY InodeFacts DEF IInv, Process, TypeOK
  <2>2. past'[Out] = past[Out]
    BY <1>t, <1>d, InodeFacts
  <2>3. ASSUME NEW i \in past[Out] \ {None} PROVE Whole(i)'
    <3>1. Whole(i) /\ i \in Inode
      BY <2>1 DEF PastIsWhole
    <3>2. i[1] # p
      BY <1>t, <3>1 DEF Whole
    <3>3. i # <<p, w>>
      BY <3>2
    <3>4. QED
      BY <1>g, <1>c, <2>1, <3>1, <3>2, <3>3 DEF Whole
  <2>4. ASSUME NEW q \in Writer, pc'[q] = "rename"
        PROVE  content'[<<q, "temp">>] = "durable"
    BY <1>t, <1>g, <1>c, <2>1, <2>4, InodeFacts DEF PastIsWhole
  <2>5. ASSUME NEW g \in Path PROVE None \in past'[g] /\ dir'[g] \in past'[g]
    BY <1>d, <2>1 DEF PastIsWhole
  <2>6. QED
    BY <2>2, <2>3, <2>4, <2>5 DEF PastIsWhole
<1>4. QED
  BY <1>1, <1>2, <1>3 DEF IInv

\* The names of key files change, or vanish, while no keygen that holds one runs on.
LEMMA RemovalStep ==
    ASSUME IInv, TypeOK', UNCHANGED <<names, past, content>>,
           \A f \in Path : dir'[f] \in past[f],
           \A q \in Keygen : pc'[q] \in HoldsPrivate =>
               pc'[q] = pc[q] /\ dir'[names[q].private] = dir[names[q].private],
           \A q \in Keygen : pc'[q] \in HoldsPublic =>
               pc'[q] = pc[q] /\ dir'[names[q].public] = dir[names[q].public],
           \A q \in Writer : pc'[q] = pc[q] \/ pc'[q] \in {"dead", "ok", "error"},
           \A q \in Writer : pc[q] \in Published => pc'[q] \in Published
    PROVE  IInv'
<1>1. ASSUME NEW q \in Keygen PROVE Held(q)'
  BY DEF IInv, Held, PrivateSynced, HoldsPrivate
<1>2. PastIsWhole'
  <2>1. PastIsWhole
    BY DEF IInv
  <2>2. ASSUME NEW i \in past[Out] \ {None} PROVE Whole(i)'
    BY <2>1 DEF PastIsWhole, Whole
  <2>3. QED
    BY <2>1, <2>2 DEF PastIsWhole
<1>3. QED
  BY <1>1, <1>2 DEF IInv

-----------------------------------------------------------------------------
(* The actions.                                                              *)

LEMMA InitInv == Init => IInv
<1> SUFFICES ASSUME Init PROVE IInv
  OBVIOUS
<1>1. TypeOK
  BY InodeFacts DEF Init, TypeOK, KeygenCode, WriterCode, Process
<1>2. \A p \in Keygen : Held(p)
  BY DEF Init, Held, HoldsPrivate, HoldsPublic, PrivateSynced, Process
<1>3. PastIsWhole
  BY InodeFacts DEF Init, PastIsWhole, Process
<1>4. QED
  BY <1>1, <1>2, <1>3 DEF IInv

USE DEF HoldsPrivate, HoldsPublic, PrivateSynced, Published

LEMMA StartStep == ASSUME IInv, NEW p \in Process, Start(p) PROVE IInv'
<1>1. (IF p \in Keygen THEN "create private" ELSE "create temp") \in Code(p)
  BY DEF Code, KeygenCode, WriterCode
<1>2. QED
  BY <1>1, QuietStep DEF Start

LEMMA KeygenCodes ==
    ASSUME NEW p \in Keygen
    PROVE  Code(p) = KeygenCode /\ p \in Process
BY DEF Code, Process

LEMMA PrivateStep == ASSUME IInv, NEW p \in Keygen, WritePrivate(p) PROVE IInv'
<1>f. ASSUME NEW from \in KeygenCode \ Published, Goto(p, from, "error"), UNCHANGED files
      PROVE  IInv'
  BY <1>f, KeygenCodes, QuietStep DEF KeygenCode
<1>1. CASE Create(p, "private", names[p].private, "create private", "fill private", "error")
  <2>1. CASE Goto(p, "create private", "error") /\ UNCHANGED files
    BY <2>1, <1>f DEF KeygenCode
  <2>2. CASE /\ Goto(p, "create private", "fill private")
             /\ MayCreate(names[p].private)
             /\ Point(names[p].private, <<p, "private">>)
             /\ Put(p, "private", "partial")
             /\ UNCHANGED <<temp, kept, lost>>
    <3>1. names[p].private \in KeyPath /\ "fill private" \in KeygenCode
      BY NamesType DEF IInv, KeygenCode
    <3>2. QED
      BY <2>2, <3>1, CreateStep DEF MayCreate
  <2>3. QED
    BY <1>1, <2>1, <2>2 DEF Create
<1>2. CASE Fill(p, "private", "fill private", "sync private", "error")
  <2>1. CASE Goto(p, "fill private", "error") /\ UNCHANGED files
    BY <2>1, <1>f DEF KeygenCode
  <2>2. CASE /\ Goto(p, "fill private", "sync private")
             /\ Put(p, "private", "whole")
             /\ UNCHANGED <<dir, past, temp, kept, lost>>
    BY <2>2, KeygenCodes, ContentStep, InodeFacts DEF KeygenCode, IInv, TypeOK
  <2>3. QED
    BY <1>2, <2>1, <2>2 DEF Fill
<1>3. CASE Sync(p, "private", "sync private", "create public", "error")
  <2>1. CASE Goto(p, "sync private", "error") /\ UNCHANGED files
    BY <2>1, <1>f DEF KeygenCode
  <2>2. ASSUME NEW to \in {"create public", "error"}, Goto(p, "sync private", to),
               Put(p, "private", "durable"), UNCHANGED <<dir, past, temp, kept, lost>>
        PROVE  IInv'
    <3>1. /\ p \in Process /\ to \in Code(p) /\ to # "rename"
          /\ "private" \in Which /\ "durable" \in State
          /\ temp' \subseteq Process
      BY <2>2, KeygenCodes, InodeFacts DEF KeygenCode, IInv, TypeOK
    <3>2. /\ to \notin HoldsPublic
          /\ "sync private" \in HoldsPrivate /\ "sync private" \notin Published
      OBVIOUS
    <3>3. QED
      BY <2>2, <3>1, <3>2, ContentStep
  <2>3. QED
    BY <1>3, <2>1, <2>2 DEF Sync
<1>4. QED
  BY <1>1, <1>2, <1>3 DEF WritePrivate

LEMMA PublicStep == ASSUME IInv, NEW p \in Keygen, WritePublic(p) PROVE IInv'
<1>f. ASSUME NEW from \in {"create public", "fill public", "sync public"},
             Goto(p, from, "undo"), UNCHANGED files
      PROVE  IInv'
  BY <1>f, KeygenCodes, QuietStep DEF KeygenCode
<1>1. CASE Create(p, "public", names[p].public, "create public", "fill public", "undo")
  <2>1. CASE Goto(p, "create public", "undo") /\ UNCHANGED files
    BY <2>1, <1>f
  <2>2. CASE /\ Goto(p, "create public", "fill public")
             /\ MayCreate(names[p].public)
             /\ Point(names[p].public, <<p, "public">>)
             /\ Put(p, "public", "partial")
             /\ UNCHANGED <<temp, kept, lost>>
    <3>1. names[p].public \in KeyPath /\ "fill public" \in KeygenCode
      BY NamesType DEF IInv, KeygenCode
    <3>2. QED
      BY <2>2, <3>1, CreateStep DEF MayCreate
  <2>3. QED
    BY <1>1, <2>1, <2>2 DEF Create
<1>2. CASE Fill(p, "public", "fill public", "sync public", "undo")
  <2>1. CASE Goto(p, "fill public", "undo") /\ UNCHANGED files
    BY <2>1, <1>f
  <2>2. CASE /\ Goto(p, "fill public", "sync public")
             /\ Put(p, "public", "whole")
             /\ UNCHANGED <<dir, past, temp, kept, lost>>
    <3>1. /\ p \in Process /\ "sync public" \in Code(p)
          /\ "public" \in Which /\ "whole" \in State
          /\ temp' \subseteq Process
      BY <2>2, KeygenCodes, InodeFacts DEF KeygenCode, IInv, TypeOK
    <3>2. QED
      BY <2>2, <3>1, ContentStep
  <2>3. QED
    BY <1>2, <2>1, <2>2 DEF Fill
<1>3. CASE Sync(p, "public", "sync public", "ok", "undo")
  <2>1. CASE Goto(p, "sync public", "undo") /\ UNCHANGED files
    BY <2>1, <1>f
  <2>2. ASSUME NEW to \in {"ok", "undo"}, Goto(p, "sync public", to),
               Put(p, "public", "durable"), UNCHANGED <<dir, past, temp, kept, lost>>
        PROVE  IInv'
    <3>1. /\ p \in Process /\ to \in Code(p) /\ to # "rename"
          /\ "public" \in Which /\ "durable" \in State
          /\ temp' \subseteq Process
      BY <2>2, KeygenCodes, InodeFacts DEF KeygenCode, IInv, TypeOK
    <3>2. /\ to \notin HoldsPublic /\ to \notin PrivateSynced
          /\ "sync public" \in HoldsPrivate /\ "sync public" \notin Published
      OBVIOUS
    <3>3. QED
      BY <2>2, <3>1, <3>2, ContentStep
  <2>3. QED
    BY <1>3, <2>1, <2>2 DEF Sync
<1>4. QED
  BY <1>1, <1>2, <1>3 DEF WritePublic

LEMMA WriterCodes ==
    ASSUME NEW p \in Writer
    PROVE  Code(p) = WriterCode /\ p \in Process /\ p \notin Keygen
BY FilesAssumption DEF Code, Process

LEMMA RenameStep == ASSUME IInv, NEW p \in Writer, Rename(p) PROVE IInv'
<1>1. CASE Goto(p, "rename", "remove, error") /\ UNCHANGED files
  BY <1>1, WriterCodes, QuietStep DEF WriterCode
<1>2. CASE /\ Goto(p, "rename", "remove, ok") /\ Point(Out, <<p, "temp">>)
           /\ temp' = temp \ {p} /\ UNCHANGED <<content, kept, lost>>
  <2>t. /\ p \in Process /\ p \notin Keygen /\ "remove, ok" \in Code(p)
        /\ Out \in Path /\ <<p, "temp">> \in Inode
    BY WriterCodes, InodeFacts DEF WriterCode
  <2>g. /\ pc[p] = "rename" /\ pc'[p] = "remove, ok" /\ names' = names
        /\ \A q \in Process : q # p => pc'[q] = pc[q]
    BY <1>2, <2>t, GotoFacts DEF IInv
  <2>d. /\ dir'[Out] = <<p, "temp">> /\ past'[Out] = past[Out] \cup {<<p, "temp">>}
        /\ \A g \in Path : g # Out => dir'[g] = dir[g] /\ past'[g] = past[g]
    BY <1>2, <2>t, PointFacts DEF IInv
  <2>1. TypeOK'
    BY <1>2, <2>t, GotoFacts, PointFacts DEF IInv, TypeOK
  <2>2. ASSUME NEW q \in Keygen PROVE Held(q)'
    <3>1. /\ q \in Process /\ q # p
          /\ names[q].private \in Path \ {Out} /\ names[q].public \in Path \ {Out}
      BY <2>t, NamesType, InodeFacts DEF IInv
    <3>2. QED
      BY <1>2, <2>t, <2>g, <2>d, <3>1, HeldByOthers
  <2>3. PastIsWhole'
    <3>1. PastIsWhole /\ Writer \subseteq Process
      BY DEF IInv, Process
    <3>2. Whole(<<p, "temp">>)'
      BY <1>2, <2>g, <3>1 DEF PastIsWhole, Whole
    <3>3. ASSUME NEW i \in past[Out] \ {None} PROVE Whole(i)'
      BY <1>2, <2>g, <3>1 DEF PastIsWhole, Whole
    <3>4. ASSUME NEW q \in Writer, pc'[q] = "rename"
          PROVE  content'[<<q, "temp">>] = "durable"
      BY <1>2, <2>g, <3>1, <3>4 DEF PastIsWhole
    <3>5. ASSUME NEW g \in Path PROVE None \in past'[g] /\ dir'[g] \in past'[g]
      BY <2>d, <3>1 DEF PastIsWhole
    <3>6. QED
      BY <2>d, <3>2, <3>3, <3>4, <3>5 DEF PastIsWhole
  <2>4. QED
    BY <2>1, <2>2, <2>3 DEF IInv
<1>3. QED
  BY <1>1, <1>2 DEF Rename

LEMMA AtomicWriteStep == ASSUME IInv, NEW p \in Writer, AtomicWrite(p) PROVE IInv'
<1>f. ASSUME NEW from \in {"create temp", "fill temp", "sync temp"},
             NEW to \in {"error", "remove, error"}, Goto(p, from, to), UNCHANGED files
      PROVE  IInv'
  BY <1>f, WriterCodes, QuietStep DEF WriterCode
<1>c. ASSUME NEW from \in {"create temp", "fill temp", "sync temp"},
             NEW to \in {"fill temp", "sync temp", "rename", "remove, error"},
             NEW s \in State, to = "rename" => s = "durable",
             Goto(p, from, to), Put(p, "temp", s), UNCHANGED <<dir, past, kept, lost>>,
             temp' \subseteq Process
      PROVE  IInv'
  <2>1. p \in Process /\ p \notin Keygen /\ to \in Code(p) /\ "temp" \in Which
    BY WriterCodes, InodeFacts DEF WriterCode
  <2>2. from \notin Published
        /\ to \notin HoldsPrivate /\ to \notin HoldsPublic /\ to \notin PrivateSynced
    OBVIOUS
  <2>3. QED
    BY <1>c, <2>1, <2>2, ContentStep
<1>t. temp \subseteq Process /\ {p} \subseteq Process
      /\ {"partial", "whole", "durable"} \subseteq State
  BY WriterCodes, InodeFacts DEF IInv, TypeOK
<1>r. ASSUME NEW from \in {"remove, ok", "remove, error"}, NEW to \in {"ok", "error"},
             from = "remove, ok" => to = "ok",
             Goto(p, from, to), UNCHANGED <<dir, past, content, lost>>,
             temp' \subseteq Process, kept' \subseteq Process
      PROVE  IInv'
  <2>1. /\ p \in Process /\ p \notin Keygen /\ to \in Code(p)
        /\ Keygen \subseteq Process /\ Writer \subseteq Process
    BY WriterCodes DEF WriterCode, Process
  <2>2. /\ pc[p] = from /\ pc'[p] = to /\ names' = names
        /\ \A q \in Process : q # p => pc'[q] = pc[q]
    BY <1>r, <2>1, GotoFacts DEF IInv
  <2>3. TypeOK'
    BY <1>r, <2>1, GotoFacts DEF IInv, TypeOK
  <2>4. \A f \in Path : dir'[f] \in past[f]
    BY <1>r DEF IInv, PastIsWhole
  <2>5. QED
    BY <1>r, <2>1, <2>2, <2>3, <2>4, RemovalStep
<1>1. CASE CreateTemp(p)
  BY <1>1, <1>f, <1>c, <1>t DEF CreateTemp
<1>2. CASE FillTemp(p)
  BY <1>2, <1>f, <1>c, <1>t DEF FillTemp, Fill
<1>3. CASE SyncTemp(p)
  BY <1>3, <1>f, <1>c, <1>t DEF SyncTemp, Sync
<1>4. CASE Rename(p)
  BY <1>4, RenameStep
<1>5. CASE RemoveTemp(p)
  BY <1>5, <1>r, <1>t DEF RemoveTemp, IInv, TypeOK
<1>6. QED
  BY <1>1, <1>2, <1>3, <1>4, <1>5 DEF AtomicWrite

LEMMA UndoStep ==
    ASSUME IInv, NEW p \in Keygen, Undo(p)
    PROVE  IInv' /\ \A f \in KeyPath : dir'[f] # dir[f] => dir[f] = <<p, "private">>
<1>t. /\ p \in Process /\ "undone" \in Code(p)
      /\ Keygen \subseteq Process /\ Writer \subseteq Process /\ p \notin Writer
      /\ names[p].private \in KeyPath /\ names[p].private # Out
      /\ KeyPath \subseteq Path
  <2>1. TypeOK /\ Keygen \subseteq Process /\ Writer \subseteq Process
    BY DEF IInv, Process
  <2>2. p \in Process /\ "undone" \in Code(p)
    BY KeygenCodes DEF KeygenCode
  <2>3. names[p].private \in KeyPath /\ p \notin Writer
    BY <2>1, NamesType
  <2>4. QED
    BY <2>1, <2>2, <2>3, InodeFacts
<1>g. /\ pc[p] = "undo" /\ pc'[p] = "undone" /\ names' = names
      /\ \A q \in Process : q # p => pc'[q] = pc[q]
  BY <1>t, GotoFacts DEF IInv, Undo
<1>h. dir[names[p].private] = <<p, "private">>
  BY <1>g DEF IInv, Held
<1>d. \A f \in Path : dir'[f] = dir[f] \/ (f = names[p].private /\ dir'[f] = None)
  BY DEF IInv, TypeOK, Undo, RemovePrivate
<1>1. TypeOK'
  <2>1. dir' \in [Path -> Inode \cup {None}] /\ kept' \subseteq Process
    BY <1>t DEF IInv, TypeOK, Undo, RemovePrivate
  <2>2. QED
    BY <1>t, <2>1, GotoFacts DEF IInv, TypeOK, Undo
<1>2. \A f \in Path : dir'[f] \in past[f]
  BY <1>d DEF IInv, PastIsWhole, TypeOK
<1>3. ASSUME NEW q \in Keygen, pc'[q] \in HoldsPrivate
      PROVE  pc'[q] = pc[q] /\ dir'[names[q].private] = dir[names[q].private]
  <2>1. Held(q) /\ names[q].private \in Path /\ q # p
    BY <1>t, <1>g, <1>3, NamesType DEF IInv
  <2>2. pc'[q] = pc[q]
    BY <1>t, <1>g, <2>1
  <2>3. dir[names[q].private] # <<p, "private">>
    <3>1. dir[names[q].private] = <<q, "private">>
      BY <1>3, <2>1, <2>2 DEF Held
    <3>2. QED
      BY <2>1, <3>1
  <2>4. QED
    BY <1>h, <1>d, <2>1, <2>2, <2>3
<1>4. ASSUME NEW q \in Keygen, pc'[q] \in HoldsPublic
      PROVE  pc'[q] = pc[q] /\ dir'[names[q].public] = dir[names[q].public]
  <2>1. Held(q) /\ names[q].public \in Path /\ q # p
    BY <1>t, <1>g, <1>4, NamesType DEF IInv
  <2>2. pc'[q] = pc[q]
    BY <1>t, <1>g, <2>1
  <2>3. dir[names[q].public] # <<p, "private">>
    <3>1. dir[names[q].public] = <<q, "public">>
      BY <1>4, <2>1, <2>2 DEF Held
    <3>2. QED
      BY <2>1, <3>1
  <2>4. QED
    BY <1>h, <1>d, <2>1, <2>2, <2>3
<1>5. IInv'
  <2>1. UNCHANGED <<names, past, content>>
    BY <1>g DEF Undo
  <2>2. \A q \in Writer : pc'[q] = pc[q]
    BY <1>t, <1>g
  <2>3. QED
    BY <1>1, <1>2, <1>3, <1>4, <2>1, <2>2, RemovalStep
<1>6. QED
  BY <1>t, <1>h, <1>d, <1>5

LEMMA KillStep == ASSUME IInv, NEW p \in Process, Kill(p) PROVE IInv'
<1>1. /\ Keygen \subseteq Process /\ Writer \subseteq Process
      /\ "dead" \in KeygenCode /\ "dead" \in WriterCode
  BY DEF Process, KeygenCode, WriterCode
<1>2. /\ pc'[p] = "dead"
      /\ \A q \in Process : q # p => pc'[q] = pc[q]
      /\ pc' \in [Process -> KeygenCode \cup WriterCode]
      /\ UNCHANGED <<names, dir, past, content, temp, kept, lost>>
  BY <1>1 DEF IInv, TypeOK, Kill, files
<1>3. TypeOK'
  BY <1>1, <1>2 DEF IInv, TypeOK
<1>4. \A f \in Path : dir'[f] \in past[f]
  BY <1>2 DEF IInv, PastIsWhole
<1>5. QED
  BY <1>1, <1>2, <1>3, <1>4, RemovalStep

LEMMA ByHandStep == ASSUME IInv, NEW f \in KeyPath, RemoveByHand(f) PROVE IInv'
<1>1. \A g \in Path : dir'[g] = dir[g] \/ dir'[g] = None
  BY DEF IInv, TypeOK, RemoveByHand
<1>2. TypeOK'
  BY DEF IInv, TypeOK, RemoveByHand
<1>3. \A g \in Path : dir'[g] \in past[g]
  BY <1>1 DEF IInv, PastIsWhole
<1>4. UNCHANGED <<names, pc, past, content>>
  BY DEF RemoveByHand
<1>5. \A q \in Keygen : pc[q] \notin HoldsPrivate /\ pc[q] \notin HoldsPublic
  BY DEF RemoveByHand, Running, Ended
<1>6. QED
  BY <1>2, <1>3, <1>4, <1>5, RemovalStep

LEMMA PowerLossStep == ASSUME IInv, PowerLoss PROVE IInv'
<1>p. /\ Keygen \subseteq Process /\ Writer \subseteq Process
      /\ "dead" \in KeygenCode /\ "dead" \in WriterCode
      /\ Ended \cup {"idle"} = {"ok", "error", "undone", "dead", "idle"}
  BY DEF Process, KeygenCode, WriterCode, Ended
<1>1. /\ pc' \in [Process -> KeygenCode \cup WriterCode]
      /\ \A q \in Process : pc'[q] = IF Running(q) THEN "dead" ELSE pc[q]
      /\ UNCHANGED <<names, past, kept>> /\ lost' \in BOOLEAN
      /\ temp' \subseteq Process
  BY <1>p DEF IInv, TypeOK, PowerLoss
<1>2. \A q \in Process : pc'[q] = pc[q] \/ pc'[q] = "dead"
  BY <1>1
<1>3. \A q \in Process : pc'[q] \in {"ok", "error", "undone", "dead", "idle"}
  BY <1>p, <1>1 DEF Running
<1>4. /\ dir' \in [Path -> UNION {past[f] : f \in Path}]
      /\ \A f \in Path : dir'[f] \in past[f]
  BY DEF PowerLoss
<1>5. dir' \in [Path -> Inode \cup {None}]
  BY <1>4 DEF IInv, TypeOK
<1>6. /\ content' \in [Inode -> State]
      /\ \A j \in Inode : content[j] = "durable" => content'[j] = "durable"
  BY InodeFacts DEF IInv, TypeOK, PowerLoss
<1>7. TypeOK'
  BY <1>p, <1>1, <1>2, <1>5, <1>6 DEF IInv, TypeOK
<1>8. ASSUME NEW q \in Keygen PROVE Held(q)'
  BY <1>p, <1>3 DEF Held
<1>9. PastIsWhole'
  <2>1. PastIsWhole /\ past[Out] \subseteq Inode \cup {None}
    BY InodeFacts DEF IInv, TypeOK
  <2>2. ASSUME NEW i \in past[Out] \ {None} PROVE Whole(i)'
    <3>1. Whole(i) /\ i \in Inode
      BY <2>1, <2>2 DEF PastIsWhole
    <3>2. QED
      BY <1>p, <1>2, <1>6, <3>1 DEF Whole
  <2>3. \A q \in Writer : pc'[q] # "rename"
    BY <1>p, <1>3
  <2>4. QED
    BY <1>1, <1>4, <2>1, <2>2, <2>3 DEF PastIsWhole
<1>10. QED
  BY <1>7, <1>8, <1>9 DEF IInv

\* The invariant is inductive.
LEMMA StepInv == IInv /\ [Next]_vars => IInv'
<1> SUFFICES ASSUME IInv, [Next]_vars PROVE IInv'
  OBVIOUS
<1>1. ASSUME NEW p \in Process, Start(p) \/ Kill(p) PROVE IInv'
  BY <1>1, StartStep, KillStep
<1>2. ASSUME NEW p \in Keygen, WritePrivate(p) \/ WritePublic(p) \/ Undo(p) PROVE IInv'
  BY <1>2, PrivateStep, PublicStep, UndoStep
<1>3. ASSUME NEW p \in Writer, AtomicWrite(p) PROVE IInv'
  BY <1>3, AtomicWriteStep
<1>4. ASSUME NEW f \in KeyPath, RemoveByHand(f) PROVE IInv'
  BY <1>4, ByHandStep
<1>5. CASE PowerLoss
  BY <1>5, PowerLossStep
<1>6. CASE UNCHANGED vars
  BY <1>6 DEF vars, files, IInv, TypeOK, Held, PastIsWhole, Whole
<1>7. QED
  BY <1>1, <1>2, <1>3, <1>4, <1>5, <1>6 DEF Next

THEOREM Invariance == Spec => []IInv
BY InitInv, StepInv, PTL DEF Spec

-----------------------------------------------------------------------------
(* The results.                                                              *)

\* Types are kept (main.go:144-168, 423-480).
THEOREM TypeCorrect == Spec => []TypeOK
BY Invariance, PTL DEF IInv

\* A file given to --out is whole whenever it is there, also after kills and a
\* power loss (main.go:448-480).
THEOREM NeverTornHolds == Spec => []NeverTorn
<1>1. IInv => NeverTorn
  BY InodeFacts DEF IInv, PastIsWhole, Whole, NeverTorn
<1>2. QED
  BY Invariance, <1>1, PTL

\* A step of a process makes files where there are none, and removes its own.
LEMMA OwnFilesStep ==
    ASSUME IInv, [Next]_vars, NEW p \in Process, NEW f \in KeyPath,
           Steps(p), dir'[f] # dir[f]
    PROVE  dir[f] = None \/ dir[f][1] = p
<1>1. ASSUME NEW q \in Process, Start(q) \/ Kill(q) PROVE FALSE
  BY <1>1 DEF Start, Kill, files
<1>2. ASSUME NEW q \in Keygen, WritePrivate(q) \/ WritePublic(q) PROVE dir[f] = None
  <2>1. names[q].private \in Path /\ names[q].public \in Path /\ f \in Path
    BY NamesType, InodeFacts DEF IInv
  <2>2. QED
    BY <1>2, <2>1 DEF WritePrivate, WritePublic, Create, Fill, Sync, Point, MayCreate,
       files, IInv, TypeOK
<1>3. ASSUME NEW q \in Keygen, Undo(q) PROVE dir[f][1] = p
  <2>1. q = p
    BY <1>3 DEF Steps, Undo, Goto, IInv, TypeOK
  <2>2. QED
    BY <1>3, <2>1, UndoStep
<1>4. ASSUME NEW q \in Writer, AtomicWrite(q) PROVE FALSE
  <2>1. f # Out /\ f \in Path
    BY InodeFacts
  <2>2. QED
    BY <1>4, <2>1 DEF AtomicWrite, CreateTemp, FillTemp, SyncTemp, Rename, RemoveTemp, Fill,
       Sync, Point, files, IInv, TypeOK
<1>5. ASSUME NEW g \in KeyPath, RemoveByHand(g) PROVE FALSE
  BY <1>5 DEF RemoveByHand, Steps
<1>6. CASE PowerLoss
  BY <1>6 DEF PowerLoss, Steps
<1>7. CASE UNCHANGED vars
  BY <1>7 DEF vars, files
<1>8. QED
  BY <1>1, <1>2, <1>3, <1>4, <1>5, <1>6, <1>7 DEF Next

\* No keygen costs anybody a key, whatever else runs (main.go:160-166, 427).
THEOREM OnlyOwnFilesHolds == Spec => OnlyOwnFiles
<1>1. IInv /\ [Next]_vars =>
         [\A p \in Process, f \in KeyPath :
             Steps(p) /\ dir'[f] # dir[f] => (dir[f] = None \/ dir[f][1] = p)]_vars
  BY OwnFilesStep
<1>2. QED
  BY Invariance, <1>1, PTL DEF Spec, OnlyOwnFiles

\* A keygen that succeeds is at its last step and holds both of its files.
LEMMA PairStep ==
    ASSUME IInv, [Next]_vars, NEW p \in Keygen, pc[p] # "ok", pc'[p] = "ok"
    PROVE  /\ dir'[names[p].private] = <<p, "private">>
           /\ dir'[names[p].public] = <<p, "public">>
           /\ content'[<<p, "private">>] = "durable"
           /\ content'[<<p, "public">>] = "durable"
<1>t. /\ p \in Process /\ p \notin Writer /\ TypeOK /\ Held(p)
      /\ <<p, "private">> \in Inode /\ <<p, "public">> \in Inode
  BY NamesType, InodeFacts DEF IInv
<1>g. ASSUME NEW q, NEW from, NEW to, Goto(q, from, to), to # "ok" PROVE FALSE
  BY <1>g, <1>t DEF Goto, TypeOK
<1>w. ASSUME NEW q \in Writer, NEW from, NEW to, Goto(q, from, to) PROVE FALSE
  BY <1>w, <1>t DEF Goto, TypeOK
<1>1. ASSUME NEW q \in Process, Start(q) \/ Kill(q) PROVE FALSE
  BY <1>1, <1>t, <1>g DEF Start, Kill, TypeOK
<1>2. ASSUME NEW q \in Keygen, WritePrivate(q) \/ Undo(q) PROVE FALSE
  BY <1>2, <1>g DEF WritePrivate, Undo, Create, Fill, Sync
<1>3. ASSUME NEW q \in Keygen, WritePublic(q)
      PROVE  /\ Goto(p, "sync public", "ok") /\ Put(p, "public", "durable") /\ dir' = dir
  <2>1. /\ Goto(q, "sync public", "ok") /\ Put(q, "public", "durable") /\ dir' = dir
    BY <1>3, <1>g DEF WritePublic, Create, Fill, Sync
  <2>2. q = p
    BY <2>1, <1>t DEF Goto, TypeOK
  <2>3. QED
    BY <2>1, <2>2
<1>4. ASSUME NEW q \in Writer, AtomicWrite(q) PROVE FALSE
  BY <1>4, <1>w DEF AtomicWrite, CreateTemp, FillTemp, SyncTemp, Rename, RemoveTemp, Fill, Sync
<1>5. ASSUME NEW g \in KeyPath, RemoveByHand(g) PROVE FALSE
  BY <1>5 DEF RemoveByHand
<1>6. ~PowerLoss
  BY <1>t DEF PowerLoss
<1>7. ~UNCHANGED vars
  BY DEF vars
<1>8. Goto(p, "sync public", "ok") /\ Put(p, "public", "durable") /\ dir' = dir
  BY <1>1, <1>2, <1>3, <1>4, <1>5, <1>6, <1>7 DEF Next
<1>9. /\ pc[p] = "sync public" /\ names' = names
      /\ content'[<<p, "public">>] = "durable"
      /\ content'[<<p, "private">>] = content[<<p, "private">>]
  BY <1>8, <1>t DEF Goto, Put, TypeOK
<1>10. QED
  BY <1>8, <1>9, <1>t DEF Held

\* A keygen that reports a key pair has made it (main.go:144-168).
THEOREM SuccessIsPairHolds == Spec => SuccessIsPair
<1>1. IInv /\ [Next]_vars =>
         [\A p \in Keygen : pc[p] # "ok" /\ pc'[p] = "ok" =>
              /\ dir'[names[p].private] = <<p, "private">>
              /\ dir'[names[p].public] = <<p, "public">>
              /\ content'[<<p, "private">>] = "durable"
              /\ content'[<<p, "public">>] = "durable"]_vars
  BY PairStep
<1>2. QED
  BY Invariance, <1>1, PTL DEF Spec, SuccessIsPair

-----------------------------------------------------------------------------
(* What an ended command leaves behind.                                      *)

\* A temporary file is a writer's that is at work or was killed, and who has undone
\* its key pair has no private key under its name.
Tidy(p) ==
    /\ p \in temp => p \in Writer /\ pc[p] \notin {"idle", "create temp", "ok", "error"}
    /\ pc[p] = "undone" => p \in Keygen /\ dir[names[p].private] # <<p, "private">>

TidyInv == ~lost => \A p \in Process \ kept : Tidy(p)

\* A step takes a process to a place that is not its last, or has it tidied.
LEMMA TidyStep == IInv /\ TidyInv /\ [Next]_vars => TidyInv'
<1> SUFFICES ASSUME IInv, TidyInv, [Next]_vars, ~lost', NEW q \in Process \ kept'
             PROVE  Tidy(q)'
  BY DEF TidyInv
<1>t. TypeOK /\ q \in Process
  BY DEF IInv
<1>p. \A f \in KeyPath : f \in Path /\ f # Out
  BY InodeFacts
<1>m. \A p \in Process : \A from, to :
         Goto(p, from, to) =>
             /\ pc[p] = from /\ pc'[p] = to /\ names' = names
             /\ q # p => pc'[q] = pc[q]
  BY <1>t DEF Goto, TypeOK
<1>n. q \in Keygen => names[q].private \in KeyPath
  BY <1>t DEF TypeOK
<1>1. ASSUME NEW p \in Process, Start(p) PROVE Tidy(q)'
  <2>1. /\ Tidy(q) /\ temp' = temp /\ dir' = dir /\ names' = names
        /\ pc[p] = "idle" /\ pc'[p] \in {"create private", "create temp"}
        /\ q # p => pc'[q] = pc[q]
    BY <1>1, <1>t, <1>m DEF Start, files, TidyInv
  <2>2. QED
    BY <2>1 DEF Tidy
<1>2. ASSUME NEW p \in Process, Kill(p) PROVE Tidy(q)'
  <2>1. /\ Tidy(q) /\ temp' = temp /\ dir' = dir /\ names' = names
        /\ pc'[p] = "dead" /\ (q # p => pc'[q] = pc[q])
    BY <1>2, <1>t DEF Kill, files, TidyInv, TypeOK
  <2>2. QED
    BY <2>1 DEF Tidy
<1>3. ASSUME NEW p \in Keygen, WritePrivate(p) \/ WritePublic(p) PROVE Tidy(q)'
  <2>1. p \in Process /\ p \notin Writer
    BY <1>t, NamesType
  <2>2. /\ Tidy(q) /\ temp' = temp
        /\ \E from, to \in KeygenCode \ {"undone"} : Goto(p, from, to)
    BY <1>3, <1>t DEF WritePrivate, WritePublic, Create, Fill, Sync, files, TidyInv,
                      KeygenCode
  <2>3. /\ names' = names /\ pc'[p] # "undone" /\ (q # p => pc'[q] = pc[q])
    BY <1>m, <2>1, <2>2
  <2>4. \A f \in Path : dir'[f] = dir[f] \/ \E w \in Which : dir'[f] = <<p, w>>
    BY <1>3, <1>t, InodeFacts
       DEF WritePrivate, WritePublic, Create, Fill, Sync, Point, files, TypeOK
  <2>5. q \in temp' => q \in Writer /\ pc'[q] \notin {"idle", "create temp", "ok", "error"}
    BY <2>1, <2>2, <2>3 DEF Tidy
  <2>6. ASSUME pc'[q] = "undone"
        PROVE  q \in Keygen /\ dir'[names'[q].private] # <<q, "private">>
    <3>1. q # p /\ q \in Keygen /\ dir[names[q].private] # <<q, "private">>
      BY <2>2, <2>3, <2>6 DEF Tidy
    <3>2. names[q].private \in Path
      BY <1>n, <1>p, <3>1
    <3>3. \A w \in Which : <<p, w>> # <<q, "private">>
      BY <3>1
    <3>4. QED
      BY <2>3, <2>4, <3>1, <3>2, <3>3
  <2>7. QED
    BY <2>5, <2>6 DEF Tidy
<1>4. ASSUME NEW p \in Keygen, Undo(p) PROVE Tidy(q)'
  <2>1. p \in Process /\ p \notin Writer /\ names[p].private \in Path
    BY <1>t, <1>p, NamesType
  <2>2. /\ Tidy(q) /\ temp' = temp /\ names' = names
        /\ pc'[p] = "undone" /\ (q # p => pc'[q] = pc[q])
    BY <1>4, <1>m, <2>1 DEF Undo, TidyInv
  <2>3. \A f \in Path : dir'[f] = dir[f] \/ dir'[f] = None
    BY <1>4, <1>t, <2>1 DEF Undo, RemovePrivate, TypeOK
  <2>4. q = p => dir'[names[p].private] = None
    BY <1>4, <1>t, <2>1 DEF Undo, RemovePrivate, TypeOK
  <2>5. <<q, "private">> # None
    BY <1>t, InodeFacts
  <2>6. QED
    BY <1>n, <1>p, <2>1, <2>2, <2>3, <2>4, <2>5 DEF Tidy
<1>5. ASSUME NEW p \in Writer, AtomicWrite(p) PROVE Tidy(q)'
  <2>1. p \in Process /\ p \notin Keygen
    BY WriterCodes
  <2>2. \A f \in KeyPath : dir'[f] = dir[f]
    BY <1>5, <1>t, <1>p
       DEF AtomicWrite, CreateTemp, FillTemp, SyncTemp, Rename, RemoveTemp, Fill, Sync,
           Point, files, TypeOK
  <2>3. Tidy(q) /\ temp' \subseteq temp \cup {p}
    BY <1>5, <1>t
       DEF AtomicWrite, CreateTemp, FillTemp, SyncTemp, Rename, RemoveTemp, Fill, Sync,
           files, TidyInv
  <2>4. \E from, to \in WriterCode :
           /\ Goto(p, from, to)
           /\ to \notin {"idle", "create temp"}
           /\ to \in {"ok", "error"} => from = "create temp" \/ p \notin temp' \/ p \in kept'
           /\ from = "create temp" => to = "fill temp" \/ temp' = temp
    BY <1>5
       DEF AtomicWrite, CreateTemp, FillTemp, SyncTemp, Rename, RemoveTemp, Fill, Sync,
           files, WriterCode
  <2>5. PICK from \in WriterCode, to \in WriterCode :
           /\ pc[p] = from /\ pc'[p] = to /\ names' = names /\ (q # p => pc'[q] = pc[q])
           /\ to \notin {"idle", "create temp"}
           /\ to \in {"ok", "error"} => from = "create temp" \/ p \notin temp' \/ p \in kept'
           /\ from = "create temp" => to = "fill temp" \/ temp' = temp
    BY <1>m, <2>1, <2>4
  <2>6. to # "undone"
    BY DEF WriterCode
  <2>7. QED
    BY <1>n, <2>1, <2>2, <2>3, <2>5, <2>6 DEF Tidy
<1>6. ASSUME NEW f \in KeyPath, RemoveByHand(f) PROVE Tidy(q)'
  <2>1. Tidy(q) /\ temp' = temp /\ names' = names /\ pc' = pc
    BY <1>6 DEF RemoveByHand, TidyInv
  <2>2. \A g \in Path : dir'[g] = dir[g] \/ dir'[g] = None
    BY <1>6, <1>t DEF RemoveByHand, TypeOK
  <2>3. <<q, "private">> # None
    BY <1>t, InodeFacts
  <2>4. QED
    BY <1>n, <1>p, <2>1, <2>2, <2>3 DEF Tidy
<1>7. CASE PowerLoss
  BY <1>7 DEF PowerLoss
<1>8. CASE UNCHANGED vars
  BY <1>8 DEF vars, files, TidyInv, Tidy
<1>9. QED
  BY <1>1, <1>2, <1>3, <1>4, <1>5, <1>6, <1>7, <1>8 DEF Next

\* A keygen that has not come to its public file has none.
PublicLast ==
    ~lost =>
        \A p \in Keygen :
            pc[p] \in {"idle", "create private", "fill private", "sync private", "error"} =>
                \A f \in Path : dir[f] # <<p, "public">>

LEMMA PublicLastStep == IInv /\ PublicLast /\ [Next]_vars => PublicLast'
<1> DEFINE Before == {"idle", "create private", "fill private", "sync private", "error"}
<1> SUFFICES ASSUME IInv, PublicLast, [Next]_vars, ~lost',
                    NEW q \in Keygen, pc'[q] \in Before, NEW f \in Path
             PROVE  dir'[f] # <<q, "public">>
  BY DEF PublicLast
<1>t. TypeOK /\ q \in Process /\ q \notin Writer
  BY NamesType DEF IInv
<1>o. ASSUME pc[q] \in Before, lost' = lost PROVE dir[f] # <<q, "public">>
  BY <1>o DEF PublicLast
<1>m. \A p \in Process : \A from, to :
         Goto(p, from, to) => pc[p] = from /\ pc'[p] = to /\ (q # p => pc'[q] = pc[q])
  BY <1>t DEF Goto, TypeOK
<1>n. <<q, "public">> # None
  BY <1>t, InodeFacts
<1>1. ASSUME NEW p \in Process, Start(p) PROVE dir'[f] # <<q, "public">>
  <2>1. dir' = dir /\ lost' = lost /\ pc[p] = "idle" /\ (q # p => pc'[q] = pc[q])
    BY <1>1, <1>m DEF Start, files
  <2>2. QED
    BY <1>o, <2>1
<1>2. ASSUME NEW p \in Process, Kill(p) PROVE dir'[f] # <<q, "public">>
  <2>1. dir' = dir /\ lost' = lost /\ pc'[p] = "dead" /\ (q # p => pc'[q] = pc[q])
    BY <1>2, <1>t DEF Kill, files, TypeOK
  <2>2. QED
    BY <1>o, <2>1
<1>3. ASSUME NEW p \in Keygen, WritePrivate(p) PROVE dir'[f] # <<q, "public">>
  <2>1. p \in Process
    BY <1>t DEF Process
  <2>2. /\ lost' = lost
        /\ dir'[f] = dir[f] \/ dir'[f] = <<p, "private">>
        /\ \E from \in {"create private", "fill private", "sync private"} : \E to : Goto(p, from, to)
    BY <1>3, <1>t DEF WritePrivate, Create, Fill, Sync, Point, files, TypeOK
  <2>3. pc[q] \in Before
    BY <1>m, <2>1, <2>2
  <2>4. <<p, "private">> # <<q, "public">>
    OBVIOUS
  <2>5. QED
    BY <1>o, <2>2, <2>3, <2>4
<1>4. ASSUME NEW p \in Keygen, WritePublic(p) PROVE dir'[f] # <<q, "public">>
  <2>1. p \in Process
    BY <1>t DEF Process
  <2>2. /\ lost' = lost
        /\ dir'[f] = dir[f] \/ dir'[f] = <<p, "public">>
        /\ \E from, to \in {"create public", "fill public", "sync public", "ok", "undo"} :
              Goto(p, from, to)
    BY <1>4, <1>t DEF WritePublic, Create, Fill, Sync, Point, files, TypeOK
  <2>3. q # p /\ pc'[q] = pc[q]
    BY <1>m, <2>1, <2>2
  <2>4. <<p, "public">> # <<q, "public">>
    BY <2>3
  <2>5. QED
    BY <1>o, <2>2, <2>3, <2>4
<1>5. ASSUME NEW p \in Keygen, Undo(p) PROVE dir'[f] # <<q, "public">>
  <2>1. p \in Process
    BY <1>t DEF Process
  <2>2. /\ lost' = lost /\ (dir'[f] = dir[f] \/ dir'[f] = None)
        /\ Goto(p, "undo", "undone")
    BY <1>5, <1>t DEF Undo, RemovePrivate, TypeOK
  <2>3. pc'[q] = pc[q]
    BY <1>m, <2>1, <2>2
  <2>4. QED
    BY <1>n, <1>o, <2>2, <2>3
<1>6. ASSUME NEW p \in Writer, AtomicWrite(p) PROVE dir'[f] # <<q, "public">>
  <2>1. p \in Process /\ q # p
    BY <1>t DEF Process
  <2>2. /\ lost' = lost
        /\ dir'[f] = dir[f] \/ dir'[f] = <<p, "temp">>
        /\ \E from, to : Goto(p, from, to)
    BY <1>6, <1>t
       DEF AtomicWrite, CreateTemp, FillTemp, SyncTemp, Rename, RemoveTemp, Fill, Sync,
           Point, files, TypeOK
  <2>3. pc'[q] = pc[q]
    BY <1>m, <2>1, <2>2
  <2>4. <<p, "temp">> # <<q, "public">>
    OBVIOUS
  <2>5. QED
    BY <1>o, <2>2, <2>3, <2>4
<1>7. ASSUME NEW g \in KeyPath, RemoveByHand(g) PROVE dir'[f] # <<q, "public">>
  <2>1. lost' = lost /\ pc' = pc /\ (dir'[f] = dir[f] \/ dir'[f] = None)
    BY <1>7, <1>t DEF RemoveByHand, TypeOK
  <2>2. QED
    BY <1>n, <1>o, <2>1
<1>8. CASE PowerLoss
  BY <1>8 DEF PowerLoss
<1>9. CASE UNCHANGED vars
  BY <1>o, <1>9 DEF vars, files
<1>10. QED
  BY <1>1, <1>2, <1>3, <1>4, <1>5, <1>6, <1>7, <1>8, <1>9 DEF Next

\* Unless power was lost, a command that has returned has removed what it should, or
\* could not, and a keygen that failed has not left both keys; what it has left of a
\* private key that it could not write, sync or close stays (main.go:160-166, 463).
THEOREM NothingLeftBehindHolds == Spec => []NothingLeftBehind
<1>1. Init => TidyInv
  BY DEF Init, TidyInv, Tidy
<1>2. Init => PublicLast
  <2>1. \A p \in Keygen : <<p, "public">> # None
    BY InodeFacts DEF Process
  <2>2. QED
    BY <2>1 DEF Init, PublicLast
<1>3. TidyInv /\ PublicLast => NothingLeftBehind
  BY DEF TidyInv, Tidy, PublicLast, NothingLeftBehind
<1>4. QED
  BY Invariance, TidyStep, PublicLastStep, <1>1, <1>2, <1>3, PTL DEF Spec

-----------------------------------------------------------------------------
(* Files implements AtomicFile.                                              *)

Statuses == [p \in Writer |-> Status(p)]
Renamed == {i[1] : i \in past[Out] \ {None}}

LEMMA InitAbstract == Init => Abstract!Init
<1> SUFFICES ASSUME Init PROVE Abstract!Init
  OBVIOUS
<1>1. Value = None
  BY InodeFacts DEF Init, Value
<1>2. Renamed = {}
  BY InodeFacts DEF Init, Renamed
<1>3. Statuses = [p \in Writer |-> "idle"]
  BY DEF Init, Status, Process, Statuses
<1>4. QED
  BY <1>1, <1>2, <1>3 DEF Abstract!Init, Renamed, Statuses

\* A step of one writer moves its own status only.
LEMMA StatusMove ==
    ASSUME TypeOK, NEW p \in Writer, NEW to, Goto(p, pc[p], to)
    PROVE  Statuses' = [Statuses EXCEPT ![p] = Status(p)'] /\ pc'[p] = to
<1>1. p \in Process /\ Writer \subseteq Process
  BY DEF Process
<1>2. pc'[p] = to /\ \A q \in Writer : q # p => pc'[q] = pc[q]
  BY <1>1 DEF TypeOK, Goto
<1>3. \A q \in Writer : q # p => Status(q)' = Status(q)
  BY <1>2 DEF Status
<1>4. QED
  BY <1>2, <1>3 DEF Statuses

\* Out looks the same while its name and the file it refers to do.
LEMMA SameFile ==
    ASSUME dir'[Out] = dir[Out], past'[Out] = past[Out],
           dir[Out] # None => content'[dir[Out]] = content[dir[Out]]
    PROVE  Value' = Value /\ Renamed' = Renamed
BY DEF Value, Renamed

\* A step that no writer takes part in.
LEMMA Invisible ==
    ASSUME \A q \in Writer : pc'[q] = pc[q], Value' = Value, Renamed' = Renamed
    PROVE  UNCHANGED Abstract!vars
<1>1. Statuses' = Statuses
  BY DEF Statuses, Status
<1>2. QED
  BY <1>1 DEF Abstract!vars, Statuses, Renamed

\* Out refers to the file of a writer that is past its renaming.
LEMMA OutIsWhole ==
    ASSUME IInv, dir[Out] # None
    PROVE  Whole(dir[Out]) /\ dir[Out] \in Inode
BY InodeFacts DEF IInv, PastIsWhole, TypeOK

LEMMA KeygenInvisible ==
    ASSUME IInv, NEW p \in Keygen, WritePrivate(p) \/ WritePublic(p) \/ Undo(p)
    PROVE  UNCHANGED Abstract!vars
<1>t. /\ TypeOK /\ p \in Process /\ p \notin Writer /\ Writer \subseteq Process
      /\ names[p].private \in Path \ {Out} /\ names[p].public \in Path \ {Out}
      /\ Out \in Path
  BY NamesType, InodeFacts DEF IInv, Process
<1>1. \A q \in Writer : pc'[q] = pc[q]
  BY <1>t DEF WritePrivate, WritePublic, Undo, Create, Fill, Sync, Goto, TypeOK
<1>2. dir'[Out] = dir[Out] /\ past'[Out] = past[Out]
  BY <1>t DEF WritePrivate, WritePublic, Undo, Create, Fill, Sync, Point, RemovePrivate,
     TypeOK, files
<1>3. ASSUME dir[Out] # None PROVE content'[dir[Out]] = content[dir[Out]]
  <2>1. dir[Out] \in Inode /\ dir[Out][1] # p
    BY <1>t, <1>3, OutIsWhole DEF Whole
  <2>2. ASSUME NEW w \in Which, NEW x \in State, Put(p, w, x)
        PROVE  content'[dir[Out]] = content[dir[Out]]
    <3>1. dir[Out] # <<p, w>>
      BY <2>1
    <3>2. QED
      BY <1>t, <2>1, <2>2, <3>1, PutFacts
  <2>3. {"private", "public"} \subseteq Which /\ {"partial", "whole", "durable"} \subseteq State
    BY InodeFacts
  <2>4. QED
    BY <2>2, <2>3 DEF WritePrivate, WritePublic, Undo, Create, Fill, Sync, files
<1>4. QED
  BY <1>1, <1>2, <1>3, SameFile, Invisible

\* A write is the abstract one when it renames; until then nothing is to be seen.
LEMMA WriterAbstract ==
    ASSUME IInv, NEW p \in Writer, AtomicWrite(p)
    PROVE  [Abstract!Next]_(Abstract!vars)
<1>t. /\ TypeOK /\ p \in Process /\ p \notin Keygen /\ Out \in Path
      /\ "temp" \in Which /\ {"partial", "whole", "durable"} \subseteq State
      /\ Statuses[p] = Status(p) /\ <<p, "temp">> \in Inode
  BY WriterCodes, InodeFacts DEF IInv, Statuses
<1>o. ASSUME dir[Out] # None, pc[p] \notin Published
      PROVE  dir[Out] \in Inode /\ dir[Out] # <<p, "temp">>
  <2>1. dir[Out] \in Inode /\ dir[Out][1] # p
    BY <1>o, OutIsWhole DEF Whole
  <2>2. QED
    BY <2>1
<1>p. ASSUME NEW x \in State, Put(p, "temp", x), pc[p] \notin Published,
             dir' = dir, past' = past
      PROVE  Value' = Value /\ Renamed' = Renamed
  BY <1>p, <1>o, <1>t, PutFacts, SameFile
<1>s. ASSUME NEW from \in {"create temp", "fill temp", "sync temp", "rename"},
             NEW to \in {"fill temp", "sync temp", "rename", "remove, error"},
             Goto(p, from, to), Value' = Value, Renamed' = Renamed
      PROVE  UNCHANGED Abstract!vars
  <2>1. Status(p)' = Status(p) /\ Statuses' = [Statuses EXCEPT ![p] = Status(p)']
    BY <1>s, <1>t, StatusMove DEF Goto, Status
  <2>2. Statuses' = Statuses
    BY <2>1, <1>t DEF Statuses
  <2>3. QED
    BY <1>s, <2>2 DEF Abstract!vars, Statuses, Renamed
<1>e. ASSUME NEW from \in {"create temp", "remove, error"},
             Goto(p, from, "error"), Value' = Value, Renamed' = Renamed
      PROVE  Abstract!Fail(p)
  <2>1. /\ Status(p) = "running" /\ Status(p)' = "error"
        /\ Statuses' = [Statuses EXCEPT ![p] = Status(p)']
    BY <1>e, <1>t, StatusMove DEF Goto, Status
  <2>2. QED
    BY <1>e, <1>t, <2>1 DEF Abstract!Fail, Abstract!Move, Statuses, Renamed
<1>1. CASE CreateTemp(p)
  <2>1. CASE Goto(p, "create temp", "fill temp") /\ Put(p, "temp", "partial")
             /\ dir' = dir /\ past' = past
    BY <2>1, <1>t, <1>p, <1>s DEF Goto
  <2>2. CASE Goto(p, "create temp", "error") /\ UNCHANGED files
    <3>1. Value' = Value /\ Renamed' = Renamed
      BY <2>2, SameFile DEF files
    <3>2. QED
      BY <2>2, <3>1, <1>e DEF Abstract!Next
  <2>3. QED
    BY <1>1, <2>1, <2>2 DEF CreateTemp
<1>2. CASE FillTemp(p)
  <2>1. CASE Goto(p, "fill temp", "sync temp") /\ Put(p, "temp", "whole")
             /\ dir' = dir /\ past' = past
    BY <2>1, <1>t, <1>p, <1>s DEF Goto
  <2>2. CASE Goto(p, "fill temp", "remove, error") /\ UNCHANGED files
    BY <2>2, <1>s, SameFile DEF files
  <2>3. QED
    BY <1>2, <2>1, <2>2 DEF FillTemp, Fill
<1>3. CASE SyncTemp(p)
  <2>1. ASSUME NEW to \in {"rename", "remove, error"}, Goto(p, "sync temp", to),
               Put(p, "temp", "durable"), dir' = dir, past' = past
        PROVE  UNCHANGED Abstract!vars
    BY <2>1, <1>t, <1>p, <1>s DEF Goto
  <2>2. CASE Goto(p, "sync temp", "remove, error") /\ UNCHANGED files
    BY <2>2, <1>s, SameFile DEF files
  <2>3. QED
    BY <1>3, <2>1, <2>2 DEF SyncTemp, Sync
<1>4. CASE Rename(p)
  <2>1. CASE Goto(p, "rename", "remove, error") /\ UNCHANGED files
    BY <2>1, <1>s, SameFile DEF files
  <2>2. CASE /\ Goto(p, "rename", "remove, ok") /\ Point(Out, <<p, "temp">>)
             /\ UNCHANGED content
    <3>1. /\ Status(p) = "running" /\ Status(p)' = "written"
          /\ Statuses' = [Statuses EXCEPT ![p] = Status(p)']
      BY <2>2, <1>t, StatusMove DEF Goto, Status
    <3>2. dir'[Out] = <<p, "temp">> /\ past'[Out] = past[Out] \cup {<<p, "temp">>}
      BY <2>2, <1>t, PointFacts
    <3>3. content'[<<p, "temp">>] = "durable"
      BY <2>2 DEF IInv, PastIsWhole, Goto
    <3>4. Value' = p
      BY <3>2, <3>3, InodeFacts, <1>t DEF Value
    <3>5. Renamed' = Renamed \cup {p}
      <4>1. <<p, "temp">> # None /\ <<p, "temp">>[1] = p
        BY <1>t, InodeFacts
      <4>2. past'[Out] \ {None} = (past[Out] \ {None}) \cup {<<p, "temp">>}
        BY <3>2, <4>1
      <4>3. QED
        BY <4>1, <4>2 DEF Renamed
    <3>6. Abstract!Write(p)
      BY <3>1, <3>4, <3>5, <1>t DEF Abstract!Write, Abstract!Move, Statuses, Renamed
    <3>7. QED
      BY <3>6 DEF Abstract!Next
  <2>3. QED
    BY <1>4, <2>1, <2>2 DEF Rename
<1>5. CASE RemoveTemp(p)
  <2>1. Value' = Value /\ Renamed' = Renamed
    BY <1>5, SameFile DEF RemoveTemp
  <2>2. CASE Goto(p, "remove, error", "error")
    BY <2>1, <2>2, <1>e DEF Abstract!Next
  <2>3. CASE Goto(p, "remove, ok", "ok")
    <3>1. /\ Status(p) = "written" /\ Status(p)' = "ok"
          /\ Statuses' = [Statuses EXCEPT ![p] = Status(p)']
      BY <2>3, <1>t, StatusMove DEF Goto, Status
    <3>2. Abstract!Return(p)
      BY <2>1, <3>1, <1>t DEF Abstract!Return, Abstract!Move, Statuses, Renamed
    <3>3. QED
      BY <3>2 DEF Abstract!Next
  <2>4. QED
    BY <1>5, <2>2, <2>3 DEF RemoveTemp
<1>6. QED
  BY <1>1, <1>2, <1>3, <1>4, <1>5 DEF AtomicWrite

LEMMA KillAbstract ==
    ASSUME IInv, NEW p \in Process, Kill(p)
    PROVE  [Abstract!Next]_(Abstract!vars)
<1>t. TypeOK /\ Writer \subseteq Process
  BY DEF IInv, Process
<1>1. Value' = Value /\ Renamed' = Renamed
  BY SameFile DEF Kill, files
<1>2. pc'[p] = "dead" /\ \A q \in Process : q # p => pc'[q] = pc[q]
  BY DEF Kill, IInv, TypeOK
<1>3. CASE p \in Writer
  <2>1. Status(p) \in {"running", "written"} /\ Status(p)' = "dead"
    BY <1>2, <1>3, <1>t DEF Kill, Running, Ended, Status, TypeOK, WriterCode
  <2>2. \A q \in Writer : q # p => Status(q)' = Status(q)
    BY <1>2, <1>t DEF Status
  <2>3. Statuses' = [Statuses EXCEPT ![p] = "dead"] /\ Statuses[p] = Status(p)
    BY <1>3, <2>1, <2>2 DEF Statuses
  <2>4. Abstract!Kill(p)
    BY <1>1, <2>1, <2>3 DEF Abstract!Kill, Abstract!Move, Statuses, Renamed
  <2>5. QED
    BY <1>3, <2>4 DEF Abstract!Next
<1>4. CASE p \notin Writer
  BY <1>1, <1>2, <1>4, <1>t, Invisible
<1>5. QED
  BY <1>3, <1>4

\* A power loss brings back what was renamed to Out before, whole, or nothing.
LEMMA PowerLossAbstract == ASSUME IInv, PowerLoss PROVE Abstract!PowerLoss
<1>t. IInv' /\ TypeOK /\ Writer \subseteq Process
  BY PowerLossStep DEF IInv, Process
<1>1. past' = past /\ dir'[Out] \in past[Out]
  BY InodeFacts DEF PowerLoss
<1>2. Value' \in Renamed \cup {None}
  <2>1. CASE dir'[Out] = None
    BY <2>1 DEF Value
  <2>2. CASE dir'[Out] # None
    <3>1. Whole(dir[Out])'
      BY <1>t, <1>1, <2>2 DEF IInv, PastIsWhole
    <3>2. Value' = dir'[Out][1]
      BY <2>2, <3>1 DEF Whole, Value
    <3>3. QED
      BY <1>1, <2>2, <3>2 DEF Renamed
  <2>3. QED
    BY <2>1, <2>2
<1>3. \A q \in Writer : pc'[q] = IF Running(q) THEN "dead" ELSE pc[q]
  BY <1>t DEF PowerLoss
<1>4. ASSUME NEW q \in Writer
      PROVE  Status(q)' = IF Status(q) \in {"running", "written"} THEN "dead" ELSE Status(q)
  BY <1>3, <1>t DEF Running, Ended, Status, TypeOK, WriterCode
<1>5. Statuses' = [q \in Writer |-> IF Statuses[q] \in {"running", "written"} THEN "dead"
                                    ELSE Statuses[q]]
  BY <1>4 DEF Statuses
<1>6. QED
  BY <1>1, <1>2, <1>5 DEF Abstract!PowerLoss, Statuses, Renamed

LEMMA StepAbstract == IInv /\ [Next]_vars => [Abstract!Next]_(Abstract!vars)
<1> SUFFICES ASSUME IInv, [Next]_vars PROVE [Abstract!Next]_(Abstract!vars)
  OBVIOUS
<1>t. TypeOK /\ Writer \subseteq Process
  BY DEF IInv, Process
<1>1. ASSUME NEW p \in Process, Start(p) PROVE [Abstract!Next]_(Abstract!vars)
  <2>1. Value' = Value /\ Renamed' = Renamed
    BY <1>1, SameFile DEF Start, files
  <2>2. CASE p \in Keygen
    <3>1. \A q \in Writer : pc'[q] = pc[q]
      BY <1>1, <1>t, <2>2, FilesAssumption DEF Start, Goto, TypeOK
    <3>2. QED
      BY <2>1, <3>1, Invisible
  <2>3. CASE p \in Writer
    <3>1. Goto(p, pc[p], "create temp") /\ pc[p] = "idle"
      BY <1>1, <2>3, FilesAssumption DEF Start, Goto
    <3>2. /\ Status(p) = "idle" /\ Status(p)' = "running" /\ Statuses[p] = Status(p)
          /\ Statuses' = [Statuses EXCEPT ![p] = Status(p)']
      <4>1. /\ Statuses' = [Statuses EXCEPT ![p] = Status(p)']
            /\ pc'[p] = "create temp"
        BY <1>t, <2>3, <3>1, StatusMove
      <4>2. QED
        BY <2>3, <3>1, <4>1 DEF Status, Statuses
    <3>3. Abstract!Begin(p)
      BY <2>1, <2>3, <3>2 DEF Abstract!Begin, Abstract!Move, Statuses, Renamed
    <3>4. QED
      BY <2>3, <3>3 DEF Abstract!Next
  <2>4. QED
    BY <2>2, <2>3 DEF Process
<1>2. ASSUME NEW p \in Process, Kill(p) PROVE [Abstract!Next]_(Abstract!vars)
  BY <1>2, KillAbstract
<1>3. ASSUME NEW p \in Keygen, WritePrivate(p) \/ WritePublic(p) \/ Undo(p)
      PROVE  [Abstract!Next]_(Abstract!vars)
  BY <1>3, KeygenInvisible
<1>4. ASSUME NEW p \in Writer, AtomicWrite(p) PROVE [Abstract!Next]_(Abstract!vars)
  BY <1>4, WriterAbstract
<1>5. ASSUME NEW f \in KeyPath, RemoveByHand(f) PROVE [Abstract!Next]_(Abstract!vars)
  <2>1. dir'[Out] = dir[Out] /\ UNCHANGED <<pc, past, content>>
    BY <1>5, <1>t, InodeFacts DEF RemoveByHand, TypeOK
  <2>2. QED
    BY <2>1, SameFile, Invisible
<1>6. CASE PowerLoss
  BY <1>6, PowerLossAbstract DEF Abstract!Next
<1>7. CASE UNCHANGED vars
  BY <1>7, SameFile, Invisible DEF vars, files
<1>8. QED
  BY <1>1, <1>2, <1>3, <1>4, <1>5, <1>6, <1>7 DEF Next

\* Whoever reads Out sees an atomic file (main.go:448-480).
THEOREM Implementation == Spec => ImplementsAtomicFile
BY InitAbstract, Invariance, StepAbstract, PTL DEF Spec, ImplementsAtomicFile, Abstract!Spec
=============================================================================
