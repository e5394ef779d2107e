------------------------------ MODULE Storage ------------------------------
(***************************************************************************)
(* The three forms a graph is stored in and read back from: the file of    *)
(* persistent memory (NvmLoad), the compressed lists (Compressor) and the  *)
(* graph files of the tools (FileTools), side by side.  They do not        *)
(* interact: form says which of them a behaviour is about.  The loader's   *)
(* variables stay in an initial state while another form is at work, those *)
(* of the other two are Unused.                                            *)
(***************************************************************************)
EXTENDS NvmLoad, Compressor

CONSTANTS Unused, Jobs

VARIABLES
  form,
  task, text, binary, compressed, weighted, loaded   \* FileTools'

fileVars == <<task, text, binary, compressed, weighted, loaded>>
storageVars == <<form, vars, listVars, fileVars>>

Tools == INSTANCE FileTools WITH job <- task, memory <- loaded

ASSUME StorageAssumption == InputsOK /\ Tools!InputsOK

-----------------------------------------------------------------------------
LoaderWaits == file = (CHOOSE f \in Files : TRUE) /\ Init
NoLists == /\ input = Unused /\ phase = Unused /\ iEdges = Unused /\ charsUsed = Unused /\ finalArr = Unused
           /\ offsets = Unused /\ degree = Unused /\ job = Unused /\ calls = Unused
NoFiles == /\ task = Unused /\ text = Unused /\ binary = Unused /\ compressed = Unused /\ weighted = Unused
           /\ loaded = Unused

StorageInit ==
  \/ form = "memory" /\ Init        /\ NoLists     /\ NoFiles
  \/ form = "lists"  /\ LoaderWaits /\ ListInit    /\ NoFiles
  \/ form = "files"  /\ LoaderWaits /\ NoLists     /\ Tools!Init

StorageNext ==
  /\ UNCHANGED form
  /\ \/ form = "memory" /\ Next       /\ UNCHANGED <<listVars, fileVars>>
     \/ form = "lists"  /\ ListNext   /\ UNCHANGED <<vars, fileVars>>
     \/ form = "files"  /\ Tools!Next /\ UNCHANGED <<vars, listVars>>

StorageSpec == StorageInit /\ [][StorageNext]_storageVars

-----------------------------------------------------------------------------
\* The properties of the files, stated in FileTools; those of the loader are NvmLoad's own
\* and those of the lists Compressor's.

\* Whatever tools a file went through, in-edges are out-edges turned around.
InEdgesMirrorOutEdges == form = "files" => Tools!InEdgesMirrorOutEdges
\* Whatever tools a file went through, the graph read from it is the user's.
MemoryHoldsInput == form = "files" => Tools!MemoryHoldsInput
=============================================================================
