------------------------------ MODULE UnselfTools -----------------------------
(***************************************************************************)
(* What unself and unself2 do to a SELF: how unself finds its pieces, how  *)
(* unself2 loads its sections, and how both take the NPDRM layer off.  The *)
(* variable program says which of the three the behaviour is about; the    *)
(* other two stay where they are.                                          *)
(***************************************************************************)
EXTENDS SelfSections

CONSTANTS
    LoadElfs, LoadHdrLen, LoadHeaderSize, LoadElfOffset, LoadAlignment,
    LoadExtra, LoadSharing,                 \* those of SelfLoad
    Areas, Seals, LayerWord, Memory         \* those of Npdrm

VARIABLES
    program,
    l_elf, l_zip, l_meta, l_self, l_pc, l_i, l_ivs, l_sections, l_out,
    n_file, n_exdata, n_u, n_v

loading == <<l_elf, l_zip, l_meta, l_self, l_pc, l_i, l_ivs, l_sections, l_out>>
walking == <<n_file, n_exdata, n_u, n_v>>
all     == <<program, vars, loading, walking>>

Library == INSTANCE SelfLoad WITH
    Elfs <- LoadElfs, HdrLen <- LoadHdrLen, HeaderSize <- LoadHeaderSize,
    ElfOffset <- LoadElfOffset, Alignment <- LoadAlignment,
    Extra <- LoadExtra, Sharing <- LoadSharing,
    elf <- l_elf, zip <- l_zip, meta <- l_meta, self <- l_self, pc <- l_pc, i <- l_i,
    ivs <- l_ivs, sections <- l_sections, out <- l_out

ASSUME LibraryAssumption == Library!ElfAssumption

Layer == INSTANCE Npdrm WITH
    Areas <- Areas, Seals <- Seals, Word <- LayerWord, Memory <- Memory,
    file <- n_file, exdata <- n_exdata, u <- n_u, v <- n_v

ASSUME LayerAssumption == Layer!NpdrmAssumption

-----------------------------------------------------------------------------
\* The files of the programs the behaviour is not about.
SomeElf  == CHOOSE e \in Elfs : TRUE
SomeFile == CHOOSE f \in [area : Areas, seal : Seals, npdrm : BOOLEAN, debug : BOOLEAN] :
                f.debug => f.seal = "none"

Idle ==
    /\ elf = SomeElf
    /\ Init

LoadingIdle ==
    /\ l_elf = 0 /\ l_zip = 0 /\ l_meta = 0 /\ l_self = 0 /\ l_pc = 0
    /\ l_i = 0 /\ l_ivs = 0 /\ l_sections = 0 /\ l_out = 0

WalkingIdle ==
    /\ n_file = SomeFile
    /\ n_exdata = [rif |-> "missing", act |-> "missing"]
    /\ Layer!Init

ToolsInit ==
    \/ program = "unself" /\ Init /\ LoadingIdle /\ WalkingIdle
    \/ program = "unself2" /\ Idle /\ Library!Init /\ WalkingIdle
    \/ program = "npdrm" /\ Idle /\ LoadingIdle /\ Layer!Init

Unself  == program = "unself" /\ Next /\ UNCHANGED <<program, loading, walking>>
Unself2 == program = "unself2" /\ Library!Next /\ UNCHANGED <<program, vars, walking>>
WalkU   == program = "npdrm" /\ Layer!UNext /\ UNCHANGED <<program, vars, loading>>
WalkV   == program = "npdrm" /\ Layer!VNext /\ UNCHANGED <<program, vars, loading>>

ToolsNext == Unself \/ Unself2 \/ WalkU \/ WalkV

ToolsSpec == /\ ToolsInit /\ [][ToolsNext]_all
             /\ WF_all(Unself) /\ WF_all(Unself2) /\ WF_all(WalkU) /\ WF_all(WalkV)

-----------------------------------------------------------------------------
(* The components' properties, each of its own program. *)

\* Every run of unself ends.
UnselfTerminates == program = "unself" => Terminates

\* Of what makeself made, unself2 loads exactly what its sections and ivs allow,
\* one section for each header and one more.
UnselfLoads == program = "unself2" => Library!TypeOK /\ Library!FileBack

\* sce_remove_npdrm of tools.c and remove_npdrm of self.c come to the same end,
\* and the layer comes off only with its own licence.
NpdrmWalks == program = "npdrm" => Layer!TypeOK /\ Layer!WalksAgree

\* The walks end where the block sizes let them, and a well-formed file opens.
NpdrmEnds == program = "npdrm" => Layer!WellFormedOpens /\ Layer!WalksEnd
===============================================================================
