-------------------------------- MODULE PakFile --------------------------------
(***************************************************************************)
(* pak::PakFile and its caller ResourceManager::write_pak_file(): a file   *)
(* of a header, a table of MAX_ENTRIES entries and the data the entries    *)
(* describe.  The constructor leaves room for the table, every add_...     *)
(* appends data and fills in the next entry, and close() goes back and     *)
(* writes the table over the room left for it.                             *)
(*                                                                         *)
(* What has been written is on disk when the stream flushes, which it may  *)
(* do at any time and does before it seeks.  The program may be killed     *)
(* between any two steps.                                                  *)
(***************************************************************************)
EXTENDS Integers, Sequences

CONSTANTS
  MAX_ENTRIES,
  HeaderSize, TableSize, DrawMetadataSize, AttributeDataSize,
  MaterialMetadataSize, TextureMetadataSize, ShaderProgramSize,
  Inputs       \* the sequences of assets a pak file is asked to hold

\* A mesh has indices and one vertex buffer per attribute.
Mesh == [type : {"Mesh"}, indices : Nat, vbos : Seq(Nat)]
Material == [type : {"Material"}]
Texture == [type : {"Texture"}, width : Nat, height : Nat, channels : Nat]
Program == [type : {"ShaderProgram"}, vsrc : Nat, fsrc : Nat]

ASSUME PakAssumption ==
  /\ MAX_ENTRIES \in Nat
  /\ HeaderSize \in Nat /\ TableSize \in Nat
  /\ DrawMetadataSize \in Nat /\ AttributeDataSize \in Nat
  /\ MaterialMetadataSize \in Nat /\ TextureMetadataSize \in Nat
  /\ ShaderProgramSize \in Nat
  /\ \A input \in Inputs :
       input \in Seq(Mesh \cup Material \cup Texture \cup Program)

VARIABLES
  rest,          \* assets still to be added
  vbos,          \* vertex buffers of the mesh being added, still to be written
  entry,         \* the entry being filled in
  end,           \* ofs.tellp()
  file_table, entry_count,
  pc,            \* idle, mesh, table, closed; undefined, killed
  disk_table,    \* the table as the file holds it
  disk_end,      \* how much of the data the file holds
  added          \* history: assets whose entry has been made

adding == <<rest, vbos, entry>>
table == <<file_table, entry_count>>
disk == <<disk_table, disk_end>>
vars == <<adding, end, table, pc, disk, added>>

Start == HeaderSize + TableSize

Entry ==
  [type : {"EndEntry", "Mesh", "Material", "Texture", "ShaderProgram"},
   offset : Nat, size : Nat]

EndEntry == [type |-> "EndEntry", offset |-> 0, size |-> 0]

Slots == 0 .. MAX_ENTRIES - 1

Init ==
  /\ rest \in Inputs
  /\ vbos = <<>>
  /\ entry = EndEntry
  /\ end = Start
  /\ file_table = [i \in Slots |-> EndEntry]
  /\ entry_count = 0
  /\ pc = "idle"
  /\ disk_table = [i \in Slots |-> EndEntry]
  /\ disk_end = 0
  /\ added = <<>>

-----------------------------------------------------------------------------

Write(n) ==
  /\ end' = end + n
  /\ disk_end' \in disk_end .. end'
  /\ UNCHANGED disk_table

\* Fault: one entry more than there are slots.
EnterPastEnd(e) ==
  \/ /\ entry_count <= MAX_ENTRIES
     /\ file_table' = [file_table EXCEPT ![entry_count] = e]
     /\ entry_count' = entry_count + 1
     /\ added' = Append(added, Head(rest))
     /\ rest' = Tail(rest)
     /\ pc' = "idle"
  \/ /\ entry_count > MAX_ENTRIES
     /\ pc' = "undefined"
     /\ UNCHANGED <<table, added, rest>>

\* The entry goes into the next slot; past the last one the program writes
\* into whatever follows the table.
Enter(e) ==
  \/ /\ entry_count < MAX_ENTRIES
     /\ file_table' = [file_table EXCEPT ![entry_count] = e]
     /\ entry_count' = entry_count + 1
     /\ added' = Append(added, Head(rest))
     /\ rest' = Tail(rest)
     /\ pc' = "idle"
  \/ /\ ~(entry_count < MAX_ENTRIES)
     /\ pc' = "undefined"
     /\ UNCHANGED <<table, added, rest>>

NextIs(type) == pc = "idle" /\ rest # <<>> /\ Head(rest).type = type

EntryHere(size) == [type |-> Head(rest).type, offset |-> end, size |-> size]

BeginMesh ==
  LET size == DrawMetadataSize + Head(rest).indices IN
  /\ NextIs("Mesh")
  /\ entry' = EntryHere(size)
  /\ Write(size)
  /\ vbos' = Head(rest).vbos
  /\ pc' = "mesh"
  /\ UNCHANGED <<rest, table, added>>

\* Fault: the attribute's own header is not counted.
WriteAttributeDataOnly ==
  /\ pc = "mesh"
  /\ vbos # <<>>
  /\ entry' = [entry EXCEPT !.size = @ + Head(vbos)]
  /\ Write(AttributeDataSize + Head(vbos))
  /\ vbos' = Tail(vbos)
  /\ UNCHANGED <<rest, table, pc, added>>

WriteAttribute ==
  LET size == AttributeDataSize + Head(vbos) IN
  /\ pc = "mesh"
  /\ vbos # <<>>
  /\ entry' = [entry EXCEPT !.size = @ + size]
  /\ Write(size)
  /\ vbos' = Tail(vbos)
  /\ UNCHANGED <<rest, table, pc, added>>

EndMesh ==
  /\ pc = "mesh"
  /\ vbos = <<>>
  /\ Enter(entry)
  /\ UNCHANGED <<vbos, entry, end, disk>>

AddMaterial ==
  /\ NextIs("Material")
  /\ Write(MaterialMetadataSize)
  /\ Enter(EntryHere(MaterialMetadataSize))
  /\ UNCHANGED <<vbos, entry>>

\* Fault: the type of another asset.
AddTextureAsMesh ==
  LET size == TextureMetadataSize
                + Head(rest).width * Head(rest).height * Head(rest).channels IN
  /\ NextIs("Texture")
  /\ Write(size)
  /\ Enter([type |-> "Mesh", offset |-> end, size |-> size])
  /\ UNCHANGED <<vbos, entry>>

AddTexture ==
  LET size == TextureMetadataSize
                + Head(rest).width * Head(rest).height * Head(rest).channels IN
  /\ NextIs("Texture")
  /\ Write(size)
  /\ Enter(EntryHere(size))
  /\ UNCHANGED <<vbos, entry>>

AddShaderProgram ==
  LET size == ShaderProgramSize + Head(rest).vsrc + Head(rest).fsrc IN
  /\ NextIs("ShaderProgram")
  /\ Write(size)
  /\ Enter(EntryHere(size))
  /\ UNCHANGED <<vbos, entry>>

\* Fault: the table goes to the file while data still waits in the stream.
SeekUnflushed ==
  /\ pc = "idle"
  /\ rest = <<>>
  /\ pc' = "table"
  /\ UNCHANGED <<adding, end, table, disk, added>>

\* close(): seekp() flushes what the stream holds.
Seek ==
  /\ pc = "idle"
  /\ rest = <<>>
  /\ disk_end' = end
  /\ pc' = "table"
  /\ UNCHANGED <<adding, end, table, disk_table, added>>

Close ==
  /\ pc = "table"
  /\ disk_table' = file_table
  /\ pc' = "closed"
  /\ UNCHANGED <<adding, end, table, disk_end, added>>

\* The table is larger than the stream's buffer: part of it may be on disk.
Killed ==
  /\ pc \in {"idle", "mesh", "table"}
  /\ \/ UNCHANGED disk_table
     \/ /\ pc = "table"
        /\ \E k \in Slots :
             disk_table' = [i \in Slots |->
                              IF i < k THEN file_table[i] ELSE disk_table[i]]
  /\ pc' = "killed"
  /\ UNCHANGED <<adding, end, table, disk_end, added>>

Next ==
  \/ BeginMesh \/ WriteAttribute \/ EndMesh
  \/ AddMaterial \/ AddTexture \/ AddShaderProgram
  \/ Seek \/ Close
  \/ Killed

Spec == Init /\ [][Next]_vars

-----------------------------------------------------------------------------
(* Properties.                                                             *)

TypeOK ==
  /\ rest \in Seq(Mesh \cup Material \cup Texture \cup Program)
  /\ vbos \in Seq(Nat)
  /\ entry \in Entry
  /\ end \in Nat
  /\ file_table \in [Slots -> Entry]
  /\ entry_count \in Nat /\ entry_count <= MAX_ENTRIES
  /\ pc \in {"idle", "mesh", "table", "closed", "undefined", "killed"}
  /\ disk_table \in [Slots -> Entry]
  /\ disk_end \in Nat
  /\ added \in Seq(Mesh \cup Material \cup Texture \cup Program)

Bound(e) == e.offset + e.size

\* The entries made so far cover the data without gap or overlap, from the
\* end of the table to where the next asset goes: every size adds up to what
\* was written.
EntriesTile ==
  pc # "undefined" =>
    /\ entry_count > 0 => file_table[0].offset = Start
    /\ \A i \in Slots :
         i + 1 < entry_count => file_table[i + 1].offset = Bound(file_table[i])
    /\ pc \in {"idle", "table", "closed"} =>
         end = IF entry_count = 0 THEN Start ELSE Bound(file_table[entry_count - 1])

\* Whenever the program is killed, an entry the file's table holds describes
\* data the file holds: the table never gets ahead of the data.
TableBehindData ==
  \A i \in Slots :
    disk_table[i] # EndEntry => /\ disk_table[i].offset >= Start
                                /\ Bound(disk_table[i]) <= disk_end

\* n is the sum of s, by the sums of its beginnings.
AddsUpTo(s, n) ==
  \E sums \in [0 .. Len(s) -> 0 .. n] :
    /\ sums[0] = 0 /\ sums[Len(s)] = n
    /\ \A i \in DOMAIN s : sums[i] = sums[i - 1] + s[i]

\* Entry e has the type of asset a and the size of its parts.
Describes(e, a) ==
  /\ e.type = a.type
  /\ a.type = "Mesh" =>
       LET rows == DrawMetadataSize + a.indices + AttributeDataSize * Len(a.vbos)
       IN e.size >= rows /\ AddsUpTo(a.vbos, e.size - rows)
  /\ a.type = "Material" => e.size = MaterialMetadataSize
  /\ a.type = "Texture" =>
       e.size = TextureMetadataSize + a.width * a.height * a.channels
  /\ a.type = "ShaderProgram" => e.size = ShaderProgramSize + a.vsrc + a.fsrc

\* A closed file lists every asset it was given, in order, each with its type
\* and the size of its parts, and nothing else.
ClosedFileComplete ==
  pc = "closed" =>
    /\ rest = <<>>
    /\ \A i \in DOMAIN added : Describes(disk_table[i - 1], added[i])
    /\ \A i \in Slots : i >= Len(added) => disk_table[i] = EndEntry
=============================================================================
