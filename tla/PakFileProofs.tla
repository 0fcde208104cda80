----------------------------- MODULE PakFileProofs -----------------------------
(***************************************************************************)
(* PakFile, for every number of slots, every size and every input: types,  *)
(* the tiling of the data by the entries, that the table on disk never     *)
(* gets ahead of the data on disk, and that a closed file is complete.     *)
(***************************************************************************)
EXTENDS PakFile, TLAPS

Asset == Mesh \cup Material \cup Texture \cup Program

\* Where the last entry made ends, and the next one is to start.
Last == IF entry_count = 0 THEN Start ELSE Bound(file_table[entry_count - 1])

TileInv ==
  pc # "undefined" =>
    /\ entry_count > 0 => file_table[0].offset = Start
    /\ \A i \in Slots :
         i + 1 < entry_count => file_table[i + 1].offset = Bound(file_table[i])
    /\ pc \in {"idle", "table", "closed"} => end = Last
    /\ pc = "mesh" => entry.offset = Last /\ end = Bound(entry)

\* Every entry made describes data the stream has been given.
WithinInv ==
  /\ end >= Start
  /\ pc = "mesh" => entry.offset >= Start /\ Bound(entry) <= end
  /\ \A i \in Slots :
       file_table[i] # EndEntry => /\ file_table[i].offset >= Start
                                   /\ Bound(file_table[i]) <= end

DiskInv ==
  /\ TableBehindData
  /\ disk_end <= end
  /\ pc = "table" => disk_end = end

MeshInv == pc = "mesh" => rest # <<>>

PakInv == TypeOK /\ MeshInv /\ TileInv /\ WithinInv /\ DiskInv

-----------------------------------------------------------------------------
(* What the next asset brings, by its type.                                *)

LEMMA NextMesh ==
  ASSUME TypeOK, NextIs("Mesh")
  PROVE  Head(rest).indices \in Nat /\ Head(rest).vbos \in Seq(Nat)
<1>1. Head(rest) \in Asset
  BY DEF TypeOK, NextIs, Asset
<1> QED
  BY <1>1 DEF NextIs, Asset, Mesh, Material, Texture, Program

\* A texture has three dimensions.
LEMMA NextTexture ==
  ASSUME TypeOK, NextIs("Texture")
  PROVE  /\ Head(rest).width \in Nat
         /\ Head(rest).height \in Nat
         /\ Head(rest).channels \in Nat
<1>1. Head(rest) \in Asset
  BY DEF TypeOK, NextIs, Asset
<1> QED
  BY <1>1 DEF NextIs, Asset, Mesh, Material, Texture, Program

\* A program has the lengths of two texts.
LEMMA NextProgram ==
  ASSUME TypeOK, NextIs("ShaderProgram")
  PROVE  Head(rest).vsrc \in Nat /\ Head(rest).fsrc \in Nat
<1>1. Head(rest) \in Asset
  BY DEF TypeOK, NextIs, Asset
<1> QED
  BY <1>1 DEF NextIs, Asset, Mesh, Material, Texture, Program

\* The provers' arithmetic is linear: a product is cited.
LEMMA Product == \A a, b \in Nat : a * b \in Nat
OBVIOUS

\* The sizes of the file's parts are numbers.
LEMMA Sizes ==
  /\ DrawMetadataSize \in Nat /\ AttributeDataSize \in Nat
  /\ MaterialMetadataSize \in Nat /\ TextureMetadataSize \in Nat
  /\ ShaderProgramSize \in Nat
BY PakAssumption

\* One attribute more: its header joins the headers and its data the data.
LEMMA Regroup ==
  \A m, r, p, n, h, d \in Int : (m + r + p + n) + (h + d) = m + r + (p + h) + (n + d)
OBVIOUS

\* The data start at an offset.
LEMMA StartType == Start \in Nat
BY PakAssumption DEF Start

\* An entry ends at an offset.
LEMMA EntryType ==
  \A e \in Entry : e.offset \in Nat /\ e.size \in Nat /\ Bound(e) \in Nat
BY DEF Entry, Bound

\* Slots are numbered below the length of the table.
LEMMA SlotType ==
  \A i \in Slots : i \in Nat /\ i < MAX_ENTRIES
BY PakAssumption DEF Slots

\* The asset taken off the input is the next one added.
LEMMA RestFacts ==
  ASSUME TypeOK, rest # <<>>
  PROVE  /\ Tail(rest) \in Seq(Asset)
         /\ Append(added, Head(rest)) \in Seq(Asset)
BY DEF TypeOK, Asset

-----------------------------------------------------------------------------
(* Filling in a slot changes that slot only, and goes on with the tiling   *)
(* when the new entry starts where the last one ended.                     *)

LEMMA Filled ==
  ASSUME TypeOK, NEW e \in Entry, entry_count < MAX_ENTRIES,
         file_table' = [file_table EXCEPT ![entry_count] = e],
         entry_count' = entry_count + 1
  PROVE  /\ entry_count \in Slots
         /\ file_table' \in [Slots -> Entry]
         /\ entry_count' \in Nat /\ entry_count' <= MAX_ENTRIES
         /\ file_table'[entry_count] = e
         /\ \A i \in Slots : i # entry_count => file_table'[i] = file_table[i]
BY PakAssumption DEF TypeOK, Slots

\* An entry that starts where the last one ended goes on with the tiling.
LEMMA FilledTiles ==
  ASSUME TypeOK, TileInv, pc # "undefined", NEW e \in Entry, e.offset = Last,
         entry_count < MAX_ENTRIES,
         file_table' = [file_table EXCEPT ![entry_count] = e],
         entry_count' = entry_count + 1
  PROVE  /\ file_table'[0].offset = Start
         /\ \A i \in Slots :
              i + 1 < entry_count' =>
                file_table'[i + 1].offset = Bound(file_table'[i])
         /\ Last' = Bound(e)
<1> DEFINE n == entry_count
<1>1. /\ n \in Slots /\ n \in Nat
      /\ file_table'[n] = e
      /\ \A i \in Slots : i # n => file_table'[i] = file_table[i]
  BY Filled, SlotType
<1>2. /\ n > 0 => file_table[0].offset = Start
      /\ \A i \in Slots :
           i + 1 < n => file_table[i + 1].offset = Bound(file_table[i])
  BY DEF TileInv
<1>3. file_table'[0].offset = Start
  <2>1. CASE n = 0
    BY <2>1, <1>1 DEF Last
  <2>2. CASE n > 0
    <3>1. 0 \in Slots
      BY <1>1, PakAssumption DEF Slots
    <3> QED
      BY <2>2, <3>1, <1>1, <1>2
  <2> QED
    BY <2>1, <2>2, <1>1
<1>4. ASSUME NEW i \in Slots, i + 1 < n + 1
      PROVE  file_table'[i + 1].offset = Bound(file_table'[i])
  <2>1. i \in Nat /\ i < n /\ file_table'[i] = file_table[i]
    BY <1>1, <1>4, SlotType
  <2>2. CASE i + 1 = n
    <3>1. Last = Bound(file_table[i])
      BY <2>1, <2>2 DEF Last
    <3> QED
      BY <2>1, <2>2, <3>1, <1>1
  <2>3. CASE i + 1 < n
    <3>1. i + 1 \in Slots /\ i + 1 # n
      BY <1>1, <2>1, <2>3, PakAssumption DEF Slots
    <3> QED
      BY <2>1, <2>3, <3>1, <1>1, <1>2 DEF Bound
  <2> QED
    BY <1>1, <1>4, <2>1, <2>2, <2>3
<1>5. Last' = Bound(e)
  <2>1. entry_count' # 0 /\ entry_count' - 1 = n
    BY <1>1
  <2> QED
    BY <1>1, <2>1 DEF Last, Bound
<1> QED
  BY <1>3, <1>4, <1>5

-----------------------------------------------------------------------------
(* Writing and entering keep the invariant.                                *)

LEMMA WriteFacts ==
  ASSUME TypeOK, NEW n \in Nat, Write(n)
  PROVE  /\ end' \in Nat /\ end' = end + n
         /\ disk_end' \in Nat /\ disk_end' >= disk_end
         /\ disk_table' = disk_table
         /\ disk_end' <= end'
BY DEF TypeOK, Write

\* An asset written in one go.
LEMMA AddAsset ==
  ASSUME PakInv, pc = "idle", rest # <<>>, NEW n \in Nat,
         Head(rest).type \in {"Material", "Texture", "ShaderProgram"},
         Write(n), Enter(EntryHere(n)), UNCHANGED <<vbos, entry>>
  PROVE  PakInv'
<1> DEFINE e == EntryHere(n)
<1>1. e \in Entry /\ e.offset = end /\ Bound(e) = end' /\ e.offset >= Start
      /\ e # EndEntry
  BY StartType DEF EntryHere, Entry, Bound, Write, TypeOK, PakInv, WithinInv,
                   EndEntry
<1>2. /\ end' \in Nat /\ end' = end + n
      /\ disk_end' \in Nat /\ disk_end' >= disk_end
      /\ disk_table' = disk_table
      /\ disk_end' <= end'
  BY WriteFacts DEF PakInv
<1> HIDE DEF e
<1>a. CASE /\ entry_count < MAX_ENTRIES
           /\ file_table' = [file_table EXCEPT ![entry_count] = e]
           /\ entry_count' = entry_count + 1
           /\ added' = Append(added, Head(rest))
           /\ rest' = Tail(rest)
           /\ pc' = "idle"
  <2>0. /\ entry_count \in Slots
        /\ file_table' \in [Slots -> Entry]
        /\ entry_count' \in Nat /\ entry_count' <= MAX_ENTRIES
        /\ file_table'[entry_count] = e
        /\ \A i \in Slots : i # entry_count => file_table'[i] = file_table[i]
    BY <1>1, <1>a, Filled DEF PakInv
  <2>1. TypeOK'
    BY <1>2, <1>a, <2>0, RestFacts DEF PakInv, TypeOK, Asset
  <2>2. TileInv' /\ MeshInv'
    <3>1. e.offset = Last
      BY <1>1 DEF PakInv, TileInv
    <3> QED
      BY <1>1, <1>a, <3>1, FilledTiles DEF PakInv, TileInv, MeshInv
  <2>3. WithinInv'
    <3>1. ASSUME NEW i \in Slots, file_table'[i] # EndEntry
          PROVE  file_table'[i].offset >= Start /\ Bound(file_table'[i]) <= end'
      <4>1. CASE i = entry_count
        BY <1>1, <1>2, <2>0, <4>1
      <4>2. CASE i # entry_count
        <5>1. file_table'[i] = file_table[i] /\ file_table[i] \in Entry
          BY <2>0, <4>2 DEF PakInv, TypeOK
        <5>2. file_table[i].offset >= Start /\ Bound(file_table[i]) <= end
          BY <3>1, <5>1 DEF PakInv, WithinInv
        <5> QED
          BY <1>2, <5>1, <5>2, EntryType DEF PakInv, TypeOK
      <4> QED
        BY <4>1, <4>2
    <3> QED
      BY <1>2, <1>a, <3>1, StartType DEF PakInv, TypeOK, WithinInv, Bound
  <2>4. DiskInv'
    BY <1>2, <1>a DEF PakInv, TypeOK, DiskInv, TableBehindData, Bound, Entry
  <2> QED
    BY <2>1, <2>2, <2>3, <2>4 DEF PakInv
<1>b. CASE pc' = "undefined" /\ UNCHANGED <<table, added, rest>>
  <2>1. TypeOK'
    BY <1>2, <1>b DEF PakInv, TypeOK, table
  <2>2. TileInv' /\ MeshInv'
    BY <1>b DEF TileInv, MeshInv
  <2>3. WithinInv'
    BY <1>2, <1>b, StartType DEF PakInv, TypeOK, WithinInv, table, Bound, Entry
  <2>4. DiskInv'
    BY <1>2, <1>b DEF PakInv, TypeOK, DiskInv, TableBehindData, Bound, Entry
  <2> QED
    BY <2>1, <2>2, <2>3, <2>4 DEF PakInv
<1> QED
  BY <1>a, <1>b DEF Enter, e

-----------------------------------------------------------------------------

\* The constructor's file: no entries, no data.
LEMMA PakInit == Init => PakInv
<1> SUFFICES ASSUME Init PROVE PakInv
  OBVIOUS
<1>1. EndEntry \in Entry
  BY DEF EndEntry, Entry
<1>2. rest \in Seq(Asset)
  BY PakAssumption DEF Init, Asset
<1>3. TypeOK
  BY <1>1, <1>2, StartType, PakAssumption DEF Init, TypeOK, Asset
<1>4. \A i \in Slots : file_table[i] = EndEntry /\ disk_table[i] = EndEntry
  BY DEF Init
<1>5. TileInv /\ MeshInv
  BY <1>4, SlotType DEF Init, MeshInv, TileInv, Last
<1>6. WithinInv /\ DiskInv
  BY <1>4, StartType DEF Init, WithinInv, DiskInv, TableBehindData
<1> QED
  BY <1>3, <1>5, <1>6 DEF PakInv

\* Each operation keeps the invariant.
LEMMA PakStep == PakInv /\ [Next]_vars => PakInv'
<1> SUFFICES ASSUME PakInv, [Next]_vars PROVE PakInv'
  OBVIOUS
<1> USE DEF PakInv
<1>1. CASE BeginMesh
  <2> DEFINE size == DrawMetadataSize + Head(rest).indices
  <2>1. size \in Nat /\ Head(rest).vbos \in Seq(Nat)
    BY <1>1, NextMesh, PakAssumption DEF BeginMesh
  <2>2. /\ pc = "idle" /\ pc' = "mesh"
        /\ entry' = [type |-> "Mesh", offset |-> end, size |-> size]
        /\ Write(size)
        /\ vbos' = Head(rest).vbos
        /\ UNCHANGED <<rest, table, added>>
    BY <1>1 DEF BeginMesh, NextIs, EntryHere
  <2> HIDE DEF size
  <2>3. /\ end' \in Nat /\ end' = end + size
        /\ disk_end' \in Nat /\ disk_end' >= disk_end
        /\ disk_table' = disk_table
        /\ disk_end' <= end'
    BY <2>1, <2>2, WriteFacts
  <2>4. TypeOK'
    BY <2>1, <2>2, <2>3 DEF TypeOK, table, Entry
  <2>5. TileInv' /\ MeshInv'
    BY <1>1, <2>1, <2>2, <2>3
    DEF TypeOK, BeginMesh, NextIs, TileInv, MeshInv, Last, table, Bound
  <2>6. WithinInv'
    BY <2>1, <2>2, <2>3, StartType DEF TypeOK, WithinInv, table, Bound, Entry
  <2>7. DiskInv'
    BY <2>2, <2>3 DEF TypeOK, DiskInv, TableBehindData, Bound, Entry
  <2> QED
    BY <2>4, <2>5, <2>6, <2>7
<1>2. CASE WriteAttribute
  <2> DEFINE size == AttributeDataSize + Head(vbos)
  <2>1. size \in Nat /\ Tail(vbos) \in Seq(Nat)
    <3>1. vbos \in Seq(Nat) /\ vbos # <<>>
      BY <1>2 DEF WriteAttribute, TypeOK
    <3>2. Head(vbos) \in Nat /\ Tail(vbos) \in Seq(Nat)
      BY <3>1
    <3> QED
      BY <3>2, PakAssumption
  <2>2. /\ pc = "mesh" /\ pc' = "mesh"
        /\ entry' = [entry EXCEPT !.size = entry.size + size]
        /\ Write(size)
        /\ vbos' = Tail(vbos)
        /\ UNCHANGED <<rest, table, added>>
    BY <1>2 DEF WriteAttribute
  <2> HIDE DEF size
  <2>3. /\ end' \in Nat /\ end' = end + size
        /\ disk_end' \in Nat /\ disk_end' >= disk_end
        /\ disk_table' = disk_table
        /\ disk_end' <= end'
    BY <2>1, <2>2, WriteFacts
  <2>4. entry' \in Entry /\ entry'.offset = entry.offset
        /\ Bound(entry') = Bound(entry) + size
    <3>1. entry \in Entry /\ entry.offset \in Nat /\ entry.size \in Nat
      BY EntryType DEF TypeOK
    <3>2. entry.size + size \in Nat
      BY <2>1, <3>1
    <3>3. entry' \in Entry
      BY <2>2, <3>1, <3>2 DEF Entry
    <3>4. entry'.offset = entry.offset /\ entry'.size = entry.size + size
      BY <2>2, <3>1 DEF Entry
    <3> QED
      BY <2>1, <3>1, <3>3, <3>4 DEF Bound
  <2>5. TypeOK'
    BY <2>1, <2>2, <2>3, <2>4 DEF TypeOK, table
  <2>6. TileInv' /\ MeshInv'
    <3>1. Last' = Last
      BY <2>2 DEF Last, Bound, table
    <3>2. entry.offset = Last /\ end = Bound(entry)
      BY <2>2 DEF TileInv
    <3>3. entry'.offset = Last' /\ end' = Bound(entry')
      BY <2>3, <2>4, <3>1, <3>2
    <3>4. /\ entry_count > 0 => file_table[0].offset = Start
          /\ \A i \in Slots :
               i + 1 < entry_count =>
                 file_table[i + 1].offset = Bound(file_table[i])
      BY <2>2 DEF TileInv
    <3> QED
      BY <2>2, <3>3, <3>4 DEF TileInv, MeshInv, table, Bound
  <2>7. WithinInv'
    <3>1. entry'.offset >= Start /\ Bound(entry') <= end'
      BY <2>1, <2>2, <2>3, <2>4, EntryType DEF TypeOK, WithinInv
    <3>2. ASSUME NEW i \in Slots, file_table[i] # EndEntry
          PROVE  file_table[i].offset >= Start /\ Bound(file_table[i]) <= end'
      BY <2>1, <2>3, <3>2, EntryType DEF TypeOK, WithinInv
    <3> QED
      BY <2>1, <2>2, <2>3, <3>1, <3>2, StartType DEF TypeOK, WithinInv, table, Bound
  <2>8. DiskInv'
    BY <2>2, <2>3 DEF TypeOK, DiskInv, TableBehindData, Bound, Entry
  <2> QED
    BY <2>5, <2>6, <2>7, <2>8
<1>3. CASE EndMesh
  <2>1. pc = "mesh" /\ Enter(entry) /\ UNCHANGED <<vbos, entry, end, disk>>
    BY <1>3 DEF EndMesh
  <2>2. entry \in Entry /\ end \in Nat
    BY DEF TypeOK
  <2>a. CASE /\ entry_count < MAX_ENTRIES
             /\ file_table' = [file_table EXCEPT ![entry_count] = entry]
             /\ entry_count' = entry_count + 1
             /\ added' = Append(added, Head(rest))
             /\ rest' = Tail(rest)
             /\ pc' = "idle"
    <3>0. /\ file_table' \in [Slots -> Entry]
          /\ entry_count' \in Nat /\ entry_count' <= MAX_ENTRIES
      BY <2>2, <2>a, Filled
    <3>1. TypeOK'
      BY <2>1, <2>a, <3>0, RestFacts DEF TypeOK, MeshInv, Asset, disk
    <3>2. TileInv'
      <4>1. entry.offset = Last /\ end' = Bound(entry)
        BY <2>1 DEF TileInv, disk
      <4> QED
        BY <2>1, <2>2, <2>a, <4>1, FilledTiles DEF TileInv
    <3>3. WithinInv'
      BY <2>1, <2>2, <2>a DEF TypeOK, WithinInv, Slots, Bound, Entry
    <3>4. DiskInv' /\ MeshInv'
      BY <2>1, <2>a DEF DiskInv, MeshInv, TableBehindData, Bound, disk
    <3> QED
      BY <3>1, <3>2, <3>3, <3>4
  <2>b. CASE pc' = "undefined" /\ UNCHANGED <<table, added, rest>>
    <3>1. TypeOK'
      BY <2>1, <2>b DEF TypeOK, table, disk
    <3>2. TileInv' /\ MeshInv'
      BY <2>b DEF TileInv, MeshInv
    <3>3. WithinInv'
      BY <2>1, <2>b DEF TypeOK, WithinInv, table, Bound, Entry
    <3>4. DiskInv'
      BY <2>1, <2>b DEF DiskInv, TableBehindData, disk, Bound
    <3> QED
      BY <3>1, <3>2, <3>3, <3>4
  <2> QED
    BY <2>1, <2>a, <2>b DEF Enter
<1>4. CASE AddMaterial
  BY <1>4, AddAsset, PakAssumption DEF AddMaterial, NextIs
<1>5. CASE AddTexture
  <2> DEFINE size == TextureMetadataSize
                       + Head(rest).width * Head(rest).height * Head(rest).channels
  <2>1. Head(rest).width * Head(rest).height \in Nat
    BY <1>5, NextTexture, Product DEF AddTexture
  <2>2. Head(rest).width * Head(rest).height * Head(rest).channels \in Nat
    BY <1>5, <2>1, NextTexture, Product DEF AddTexture
  <2>3. size \in Nat
    BY <2>2, PakAssumption
  <2>4. /\ pc = "idle" /\ rest # <<>> /\ Head(rest).type = "Texture"
        /\ Write(size) /\ Enter(EntryHere(size)) /\ UNCHANGED <<vbos, entry>>
    BY <1>5 DEF AddTexture, NextIs
  <2> HIDE DEF size
  <2> QED
    BY <2>3, <2>4, AddAsset
<1>6. CASE AddShaderProgram
  <2> DEFINE size == ShaderProgramSize + Head(rest).vsrc + Head(rest).fsrc
  <2>1. size \in Nat
    BY <1>6, NextProgram, PakAssumption DEF AddShaderProgram
  <2>2. /\ pc = "idle" /\ rest # <<>> /\ Head(rest).type = "ShaderProgram"
        /\ Write(size) /\ Enter(EntryHere(size)) /\ UNCHANGED <<vbos, entry>>
    BY <1>6 DEF AddShaderProgram, NextIs
  <2> HIDE DEF size
  <2> QED
    BY <2>1, <2>2, AddAsset
<1>7. CASE Seek
  <2>1. TypeOK' /\ MeshInv'
    BY <1>7 DEF Seek, TypeOK, MeshInv, adding, table
  <2>2. TileInv' /\ WithinInv'
    BY <1>7 DEF Seek, TileInv, WithinInv, adding, table, Last, Bound
  <2>3. DiskInv'
    <3>1. ASSUME NEW i \in Slots, disk_table[i] # EndEntry
          PROVE  disk_table[i].offset >= Start /\ Bound(disk_table[i]) <= end
      BY <3>1, EntryType DEF DiskInv, TableBehindData, TypeOK
    <3> QED
      BY <1>7, <3>1 DEF Seek, DiskInv, TableBehindData, Bound, TypeOK
  <2> QED
    BY <2>1, <2>2, <2>3
<1>8. CASE Close
  <2>1. TypeOK' /\ MeshInv'
    BY <1>8 DEF Close, TypeOK, MeshInv, adding, table
  <2>2. TileInv' /\ WithinInv'
    BY <1>8 DEF Close, TileInv, WithinInv, adding, table, Last, Bound
  <2>3. DiskInv'
    BY <1>8 DEF Close, DiskInv, WithinInv, TableBehindData, Bound
  <2> QED
    BY <2>1, <2>2, <2>3
<1>9. CASE Killed
  <2>1. MeshInv' /\ TileInv' /\ WithinInv'
    BY <1>9 DEF Killed, MeshInv, TileInv, WithinInv, adding, table, Last, Bound
  <2>2. CASE UNCHANGED disk_table
    BY <1>9, <2>1, <2>2
    DEF Killed, TypeOK, DiskInv, TableBehindData, Bound, adding, table
  <2>3. CASE /\ pc = "table"
             /\ \E k \in Slots :
                  disk_table' = [i \in Slots |->
                                   IF i < k THEN file_table[i] ELSE disk_table[i]]
    <3>1. TypeOK'
      BY <1>9, <2>3 DEF Killed, TypeOK, adding, table
    <3>2. DiskInv'
      BY <1>9, <2>3 DEF Killed, DiskInv, WithinInv, TableBehindData, Bound
    <3> QED
      BY <2>1, <3>1, <3>2
  <2> QED
    BY <1>9, <2>2, <2>3 DEF Killed
<1>10. CASE UNCHANGED vars
  BY <1>10 DEF vars, adding, table, disk, TypeOK, MeshInv, TileInv, WithinInv,
               DiskInv, TableBehindData, Last, Bound
<1> QED
  BY <1>1, <1>2, <1>3, <1>4, <1>5, <1>6, <1>7, <1>8, <1>9, <1>10 DEF Next

-----------------------------------------------------------------------------
(* What the entries say of the assets.                                     *)

\* sums are the sums of the first k elements of s, the last of them n.
SumsOf(sums, s, k, n) ==
  /\ sums \in [0 .. k -> 0 .. n]
  /\ sums[0] = 0 /\ sums[k] = n
  /\ \A i \in 1 .. k : sums[i] = sums[i - 1] + s[i]

\* The entry of the mesh being added counts the k vertex buffers written.
FillingInv ==
  pc = "mesh" =>
    /\ Head(rest).type = "Mesh" /\ entry.type = "Mesh"
    /\ \E k \in 0 .. Len(Head(rest).vbos), n \in Nat :
         /\ Len(vbos) = Len(Head(rest).vbos) - k
         /\ \A i \in DOMAIN vbos : vbos[i] = Head(rest).vbos[k + i]
         /\ entry.size = DrawMetadataSize + Head(rest).indices
                           + AttributeDataSize * k + n
         /\ \E sums : SumsOf(sums, Head(rest).vbos, k, n)

\* The table lists the assets added, and what is on disk once it is closed.
ListInv ==
  /\ pc # "undefined" =>
       /\ Len(added) = entry_count
       /\ \A i \in DOMAIN added : Describes(file_table[i - 1], added[i])
       /\ \A i \in Slots : i >= entry_count => file_table[i] = EndEntry
  /\ pc \in {"table", "closed"} => rest = <<>>
  /\ pc = "closed" => disk_table = file_table

\* A sum goes on with the next element.
LEMMA SumsGrow ==
  ASSUME NEW s \in Seq(Nat), NEW k \in Nat, k < Len(s), NEW n \in Nat, NEW sums,
         SumsOf(sums, s, k, n)
  PROVE  \E more : SumsOf(more, s, k + 1, n + s[k + 1])
<1> DEFINE more == [i \in 0 .. k + 1 |-> IF i <= k THEN sums[i] ELSE n + s[k + 1]]
<1>1. s[k + 1] \in Nat
  OBVIOUS
<1>2. \A i \in 0 .. k : sums[i] \in 0 .. n
  BY DEF SumsOf
<1>3. more \in [0 .. k + 1 -> 0 .. n + s[k + 1]]
  <2>1. ASSUME NEW i \in 0 .. k + 1
        PROVE  more[i] \in 0 .. n + s[k + 1]
    BY <1>1, <1>2
  <2> QED
    BY <2>1
<1>4. more[0] = 0 /\ more[k + 1] = n + s[k + 1]
  BY DEF SumsOf
<1>5. ASSUME NEW i \in 1 .. k + 1
      PROVE  more[i] = more[i - 1] + s[i]
  <2>1. CASE i <= k
    BY <2>1 DEF SumsOf
  <2>2. CASE i = k + 1
    BY <2>2 DEF SumsOf
  <2> QED
    BY <2>1, <2>2
<1> HIDE DEF more
<1> QED
  BY <1>3, <1>4, <1>5 DEF SumsOf

\* Once all of its vertex buffers are written the entry describes the mesh.
LEMMA FilledDescribes ==
  ASSUME TypeOK, FillingInv, pc = "mesh", rest # <<>>, vbos = <<>>
  PROVE  Describes(entry, Head(rest))
<1> DEFINE a == Head(rest)
<1>1. a.indices \in Nat /\ a.vbos \in Seq(Nat)
  <2>1. a \in Asset
    BY DEF TypeOK, Asset
  <2> QED
    BY <2>1 DEF FillingInv, Asset, Mesh, Material, Texture, Program
<1>2. PICK n \in Nat :
        /\ entry.size = DrawMetadataSize + a.indices
                          + AttributeDataSize * Len(a.vbos) + n
        /\ \E sums : SumsOf(sums, a.vbos, Len(a.vbos), n)
  <2>1. PICK k \in 0 .. Len(a.vbos), n \in Nat :
          /\ Len(vbos) = Len(a.vbos) - k
          /\ entry.size = DrawMetadataSize + a.indices + AttributeDataSize * k + n
          /\ \E sums : SumsOf(sums, a.vbos, k, n)
    BY DEF FillingInv
  <2>2. k = Len(a.vbos)
    BY <1>1, <2>1
  <2> QED
    BY <2>1, <2>2
<1> DEFINE rows == DrawMetadataSize + a.indices + AttributeDataSize * Len(a.vbos)
<1>3. Len(a.vbos) \in Nat /\ DOMAIN a.vbos = 1 .. Len(a.vbos)
  BY <1>1
<1>4. rows \in Nat
  <2> DEFINE p == AttributeDataSize * Len(a.vbos)
  <2>1. p \in Nat
    BY <1>3, Product, Sizes
  <2> HIDE DEF p
  <2>2. DrawMetadataSize + a.indices + p \in Nat
    BY <1>1, <2>1, Sizes
  <2> QED
    BY <2>2 DEF p
<1>5. a.type = "Mesh" /\ entry.type = "Mesh"
  BY DEF FillingInv
<1> HIDE DEF a
<1>6. entry.size = rows + n
  BY <1>2
<1> HIDE DEF rows
<1>7. entry.size >= rows /\ entry.size - rows = n
  BY <1>4, <1>6
<1>8. AddsUpTo(a.vbos, n)
  BY <1>2, <1>3 DEF AddsUpTo, SumsOf
<1> QED
  BY <1>5, <1>7, <1>8 DEF Describes, rows, a

\* The next slot takes an entry that describes the asset taken off the input.
LEMMA EnterStep ==
  ASSUME TypeOK, ListInv, pc \in {"idle", "mesh"}, rest # <<>>, NEW e \in Entry,
         Describes(e, Head(rest)), Enter(e)
  PROVE  ListInv'
<1>1. CASE /\ entry_count < MAX_ENTRIES
           /\ file_table' = [file_table EXCEPT ![entry_count] = e]
           /\ entry_count' = entry_count + 1
           /\ added' = Append(added, Head(rest))
           /\ rest' = Tail(rest)
           /\ pc' = "idle"
  <2>1. /\ entry_count \in Slots /\ entry_count \in Nat
        /\ file_table'[entry_count] = e
        /\ \A i \in Slots : i # entry_count => file_table'[i] = file_table[i]
    BY <1>1, Filled DEF TypeOK
  <2>2. /\ Len(added) = entry_count
        /\ \A i \in DOMAIN added : Describes(file_table[i - 1], added[i])
        /\ \A i \in Slots : i >= entry_count => file_table[i] = EndEntry
    BY DEF ListInv
  <2>3. /\ added \in Seq(Asset) /\ DOMAIN added = 1 .. entry_count
        /\ Len(added') = entry_count'
        /\ DOMAIN added' = 1 .. entry_count + 1
        /\ added'[entry_count + 1] = Head(rest)
        /\ \A i \in 1 .. entry_count : added'[i] = added[i]
    BY <1>1, <2>1, <2>2, RestFacts DEF TypeOK, Asset
  <2>4. ASSUME NEW i \in DOMAIN added'
        PROVE  Describes(file_table'[i - 1], added'[i])
    <3>1. CASE i = entry_count + 1
      <4>1. i - 1 = entry_count
        BY <2>1, <3>1
      <4> QED
        BY <2>1, <2>3, <3>1, <4>1
    <3>2. CASE i \in 1 .. entry_count
      <4>1. i - 1 \in Slots /\ i - 1 # entry_count
        BY <1>1, <2>1, <3>2, PakAssumption DEF Slots
      <4>2. file_table'[i - 1] = file_table[i - 1] /\ added'[i] = added[i]
        BY <2>1, <2>3, <3>2, <4>1
      <4> QED
        BY <2>2, <2>3, <3>2, <4>2
    <3> QED
      BY <2>1, <2>3, <3>1, <3>2
  <2>5. ASSUME NEW i \in Slots, i >= entry_count'
        PROVE  file_table'[i] = EndEntry
    BY <1>1, <2>1, <2>2, <2>5, SlotType
  <2> QED
    BY <1>1, <2>3, <2>4, <2>5 DEF ListInv
<1>2. CASE pc' = "undefined" /\ UNCHANGED <<table, added, rest>>
  BY <1>2 DEF ListInv
<1> QED
  BY <1>1, <1>2 DEF Enter

\* Each vertex buffer adds its own size and its header's to the entry.
LEMMA FillingStep ==
  ASSUME PakInv, FillingInv, [Next]_vars
  PROVE  FillingInv'
<1> USE DEF PakInv
<1>1. CASE BeginMesh
  <2> DEFINE a == Head(rest)
  <2>1. /\ pc' = "mesh" /\ a.type = "Mesh"
        /\ entry' = [type |-> a.type, offset |-> end,
                     size |-> DrawMetadataSize + a.indices]
        /\ vbos' = a.vbos
        /\ rest' = rest
        /\ a.indices \in Nat /\ a.vbos \in Seq(Nat)
    BY <1>1, NextMesh DEF BeginMesh, NextIs, EntryHere
  <2>2. PICK sums : sums = [i \in {0} |-> 0]
    OBVIOUS
  <2>3. SumsOf(sums, a.vbos, 0, 0)
    BY <2>2 DEF SumsOf
  <2>4. AttributeDataSize * 0 = 0
    BY PakAssumption
  <2>5. entry'.size = DrawMetadataSize + a.indices + AttributeDataSize * 0 + 0
    BY <2>1, <2>4, PakAssumption
  <2>6. Len(a.vbos) \in Nat /\ \A i \in DOMAIN a.vbos : 0 + i = i
    BY <2>1
  <2>7. /\ 0 \in 0 .. Len(a.vbos)
        /\ Len(vbos') = Len(a.vbos) - 0
        /\ \A i \in DOMAIN vbos' : vbos'[i] = a.vbos[0 + i]
    BY <2>1, <2>6
  <2> QED
    BY <2>1, <2>3, <2>5, <2>7 DEF FillingInv
<1>2. CASE WriteAttribute
  <2> DEFINE a == Head(rest)
  <2>1. /\ pc = "mesh" /\ pc' = "mesh" /\ rest' = rest
        /\ vbos # <<>> /\ vbos' = Tail(vbos)
        /\ entry' = [entry EXCEPT !.size = entry.size + (AttributeDataSize + Head(vbos))]
        /\ rest # <<>> /\ a \in Asset
    BY <1>2 DEF WriteAttribute, table, MeshInv, TypeOK, Asset
  <2>2. PICK k \in 0 .. Len(a.vbos), n \in Nat :
          /\ Len(vbos) = Len(a.vbos) - k
          /\ \A i \in DOMAIN vbos : vbos[i] = a.vbos[k + i]
          /\ entry.size = DrawMetadataSize + a.indices + AttributeDataSize * k + n
          /\ \E sums : SumsOf(sums, a.vbos, k, n)
    BY <2>1 DEF FillingInv
  <2>3. a.type = "Mesh" /\ entry.type = "Mesh"
    BY <2>1 DEF FillingInv
  <2>4. a.indices \in Nat /\ a.vbos \in Seq(Nat)
    BY <2>1, <2>3 DEF Asset, Mesh, Material, Texture, Program
  <2>5. vbos \in Seq(Nat) /\ entry \in Entry
    BY DEF TypeOK
  <2> HIDE DEF a
  <2>6. /\ Len(a.vbos) \in Nat /\ k \in Nat /\ k < Len(a.vbos)
        /\ Head(vbos) = a.vbos[k + 1]
        /\ Head(vbos) \in Nat
    <3>1. Len(a.vbos) \in Nat /\ k \in Nat
      BY <2>4
    <3>2. /\ Len(vbos) \in Nat \ {0} /\ 1 \in DOMAIN vbos
          /\ Head(vbos) = vbos[1] /\ vbos[1] \in Nat
      BY <2>1, <2>5
    <3> QED
      BY <2>2, <3>1, <3>2
  <2>7. PICK more : SumsOf(more, a.vbos, k + 1, n + Head(vbos))
    <3>0. PICK sums : SumsOf(sums, a.vbos, k, n)
      BY <2>2
    <3>1. \E more : SumsOf(more, a.vbos, k + 1, n + a.vbos[k + 1])
      BY <2>4, <2>6, <3>0, SumsGrow
    <3> QED
      BY <2>6, <3>1
  <2>8. AttributeDataSize * (k + 1) = AttributeDataSize * k + AttributeDataSize
    BY <2>6, PakAssumption
  <2>9. AttributeDataSize * k \in Nat
    BY <2>6, Product, PakAssumption
  <2>10. /\ entry'.size = DrawMetadataSize + a.indices + AttributeDataSize * (k + 1)
                            + (n + Head(vbos))
         /\ entry'.type = "Mesh"
    <3>1. entry'.size = entry.size + (AttributeDataSize + Head(vbos))
          /\ entry'.type = entry.type
      BY <2>1, <2>5 DEF Entry
    <3> DEFINE p == AttributeDataSize * k
               q == AttributeDataSize * (k + 1)
    <3> HIDE DEF p, q
    <3>2. entry.size = DrawMetadataSize + a.indices + p + n
      BY <2>2 DEF p
    <3>5. /\ DrawMetadataSize \in Int
          /\ AttributeDataSize \in Int /\ a.indices \in Int
          /\ n \in Int /\ Head(vbos) \in Int
      BY <2>4, <2>5, <2>6, Sizes DEF Entry
    <3>3. q = p + AttributeDataSize /\ p \in Int
      BY <2>8, <2>9 DEF p, q
    <3>4. entry'.size = DrawMetadataSize + a.indices + q + (n + Head(vbos))
      <4>1. entry'.size = (DrawMetadataSize + a.indices + p + n)
                            + (AttributeDataSize + Head(vbos))
        BY <3>1, <3>2
      <4>2. @ = DrawMetadataSize + a.indices + (p + AttributeDataSize) + (n + Head(vbos))
        BY <3>3, <3>5, Regroup
      <4> QED
        BY <3>3, <4>1, <4>2
    <3> QED
      BY <2>3, <3>1, <3>4 DEF q
  <2>11. /\ Len(vbos') = Len(a.vbos) - (k + 1)
         /\ \A i \in DOMAIN vbos' : vbos'[i] = a.vbos[(k + 1) + i]
    <3>1. Len(vbos') = Len(vbos) - 1
      BY <2>1, <2>5
    <3>2. ASSUME NEW i \in DOMAIN vbos'
          PROVE  vbos'[i] = a.vbos[(k + 1) + i]
      <4>1. i \in Nat /\ i + 1 \in DOMAIN vbos /\ vbos'[i] = vbos[i + 1]
        BY <2>1, <2>5, <3>2
      <4>2. k + (i + 1) = (k + 1) + i
        BY <2>6, <4>1
      <4> QED
        BY <2>2, <4>1, <4>2
    <3> QED
      BY <2>2, <2>4, <2>5, <2>6, <3>1, <3>2
  <2>12. k + 1 \in 0 .. Len(a.vbos) /\ n + Head(vbos) \in Nat
    BY <2>6
  <2> QED
    BY <2>1, <2>3, <2>7, <2>10, <2>11, <2>12 DEF FillingInv, a
<1>3. CASE EndMesh
  BY <1>3 DEF EndMesh, Enter, FillingInv
<1>4. CASE AddMaterial
  BY <1>4 DEF AddMaterial, Enter, FillingInv
<1>5. CASE AddTexture
  BY <1>5 DEF AddTexture, Enter, FillingInv
<1>6. CASE AddShaderProgram
  BY <1>6 DEF AddShaderProgram, Enter, FillingInv
<1>7. CASE Seek \/ Close \/ Killed
  BY <1>7 DEF Seek, Close, Killed, FillingInv
<1>8. CASE UNCHANGED vars
  BY <1>8 DEF vars, adding, FillingInv
<1> QED
  BY <1>1, <1>2, <1>3, <1>4, <1>5, <1>6, <1>7, <1>8 DEF Next

\* Each operation keeps the table in step with the assets added.
LEMMA ListStep ==
  ASSUME PakInv, FillingInv, ListInv, [Next]_vars
  PROVE  ListInv'
<1> USE DEF PakInv
<1>0. rest # <<>> => Head(rest) \in Asset
  BY DEF TypeOK, Asset
<1>1. CASE BeginMesh \/ WriteAttribute
  BY <1>1 DEF BeginMesh, WriteAttribute, NextIs, table, ListInv
<1>2. CASE EndMesh
  BY <1>2, FilledDescribes, EnterStep DEF EndMesh, MeshInv, TypeOK
<1>3. ASSUME NEW n \in Nat, pc = "idle", rest # <<>>,
             Describes(EntryHere(n), Head(rest)), Enter(EntryHere(n))
      PROVE  ListInv'
  <2>1. EntryHere(n) \in Entry
    BY <1>0, <1>3 DEF EntryHere, Entry, Asset, Mesh, Material, Texture, Program, TypeOK
  <2> QED
    BY <1>3, <2>1, EnterStep
<1>4. CASE AddMaterial
  <2>1. Describes(EntryHere(MaterialMetadataSize), Head(rest))
    BY <1>4 DEF AddMaterial, NextIs, Describes, EntryHere
  <2> QED
    BY <1>3, <1>4, <2>1, PakAssumption DEF AddMaterial, NextIs
<1>5. CASE AddTexture
  <2> DEFINE size == TextureMetadataSize
                       + Head(rest).width * Head(rest).height * Head(rest).channels
  <2>1. Head(rest).width * Head(rest).height \in Nat
    BY <1>5, NextTexture, Product DEF AddTexture
  <2>2. Head(rest).width * Head(rest).height * Head(rest).channels \in Nat
    BY <1>5, <2>1, NextTexture, Product DEF AddTexture
  <2>3. size \in Nat
    BY <2>2, PakAssumption
  <2>4. Describes(EntryHere(size), Head(rest))
    BY <1>5 DEF AddTexture, NextIs, Describes, EntryHere
  <2>5. pc = "idle" /\ rest # <<>> /\ Enter(EntryHere(size))
    BY <1>5 DEF AddTexture, NextIs
  <2> HIDE DEF size
  <2> QED
    BY <1>3, <2>3, <2>4, <2>5
<1>6. CASE AddShaderProgram
  <2> DEFINE size == ShaderProgramSize + Head(rest).vsrc + Head(rest).fsrc
  <2>1. size \in Nat
    BY <1>6, NextProgram, PakAssumption DEF AddShaderProgram
  <2>2. Describes(EntryHere(size), Head(rest))
    BY <1>6 DEF AddShaderProgram, NextIs, Describes, EntryHere
  <2>3. pc = "idle" /\ rest # <<>> /\ Enter(EntryHere(size))
    BY <1>6 DEF AddShaderProgram, NextIs
  <2> HIDE DEF size
  <2> QED
    BY <1>3, <2>1, <2>2, <2>3
<1>7. CASE Seek
  BY <1>7 DEF Seek, adding, table, ListInv
<1>8. CASE Close
  BY <1>8 DEF Close, adding, table, ListInv
<1>9. CASE Killed
  BY <1>9 DEF Killed, adding, table, ListInv
<1>10. CASE UNCHANGED vars
  BY <1>10 DEF vars, adding, table, disk, ListInv
<1> QED
  BY <1>1, <1>2, <1>4, <1>5, <1>6, <1>7, <1>8, <1>9, <1>10 DEF Next

-----------------------------------------------------------------------------

\* PakInv holds in every behaviour.
LEMMA PakInvariant == Spec => []PakInv
BY PakInit, PakStep, PTL DEF Spec

\* Offsets, sizes and the table keep their types, and entry_count never passes
\* the number of slots: PakFile's members between the calls of write_pak_file().
THEOREM PakFileTypeCorrect == Spec => []TypeOK
BY PakInvariant, PTL DEF PakInv

\* Until the table is overrun, the entries made by add_mesh(), add_material(),
\* add_texture() and add_shader_program() tile the file's data.
THEOREM PakEntriesTile == Spec => []EntriesTile
<1>1. PakInv => EntriesTile
  BY DEF PakInv, TileInv, EntriesTile, Last
<1> QED
  BY <1>1, PakInvariant, PTL

\* close() writes the table last: killed at any step, the file holds what its
\* entries describe.
THEOREM PakTableBehindData == Spec => []TableBehindData
BY PakInvariant, PTL DEF PakInv, DiskInv

\* A file that close() has finished lists, in order and with type and size,
\* every asset write_pak_file() gave it, and nothing else.
THEOREM PakFileComplete == Spec => []ClosedFileComplete
<1>1. Init => FillingInv /\ ListInv
  BY PakAssumption DEF Init, FillingInv, ListInv
<1>2. PakInv /\ FillingInv /\ ListInv /\ [Next]_vars => FillingInv' /\ ListInv'
  BY FillingStep, ListStep
<1>3. PakInv /\ ListInv => ClosedFileComplete
  BY DEF ListInv, ClosedFileComplete
<1> QED
  BY <1>1, <1>2, <1>3, PakInvariant, PTL DEF Spec
=============================================================================
