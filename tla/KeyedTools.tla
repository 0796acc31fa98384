----------------------------- MODULE KeyedTools ------------------------------
(***************************************************************************)
(* The two tools that decrypt a file with a key of key_get_simple and then *)
(* decide what to write: ungpkg, and undat behind dat.  The variable       *)
(* program says which of them the behaviour is about; the other one stays  *)
(* where it is.                                                            *)
(***************************************************************************)
EXTENDS Gpkg

CONSTANTS
    DatTexts, DatBlock, DatKeys     \* Texts, Block and Keys of DatFile

VARIABLES
    program,
    dat_len, dat_key, undat_key, dat_pc, dat_file, dat_faulty, dat_out

Index == INSTANCE DatFile WITH
    Texts <- DatTexts, Block <- DatBlock, Keys <- DatKeys,
    len <- dat_len, key <- dat_key, ukey <- undat_key, pc <- dat_pc,
    file <- dat_file, faulty <- dat_faulty, out <- dat_out

ASSUME IndexAssumption == Index!DatAssumption

index == <<dat_len, dat_key, undat_key, dat_pc, dat_file, dat_faulty, dat_out>>
all   == <<program, vars, index>>

-----------------------------------------------------------------------------
Idle      == p = (CHOOSE q \in Packages : TRUE) /\ haskey = FALSE /\ target = FALSE /\ Init
IndexIdle == /\ dat_len = (CHOOSE n \in DatTexts : TRUE)
             /\ dat_key = Index!NoKey /\ undat_key = Index!NoKey /\ Index!Init

ToolsInit ==
    \/ program = "ungpkg" /\ Init /\ IndexIdle
    \/ program = "index" /\ Idle /\ Index!Init

Ungpkg   == program = "ungpkg" /\ Next /\ UNCHANGED <<program, index>>
DatUndat == program = "index" /\ Index!Next /\ UNCHANGED <<program, vars>>

ToolsNext == Ungpkg \/ DatUndat

\* undat is run once the file is there; nothing is said of dat or of the faults.
Undat == /\ program = "index" /\ (Index!undat \/ Index!Runaway \/ Index!Decrypt)
         /\ UNCHANGED <<program, vars>>

ToolsSpec == ToolsInit /\ [][ToolsNext]_all /\ WF_all(Ungpkg) /\ WF_all(Undat)

-----------------------------------------------------------------------------
\* Where the program is ungpkg, a well-formed package is unpacked.
PackageComesOut == program = "ungpkg" => WellFormedComesOut

\* undat writes the whole text that dat was given, or nothing.
OnlyTheText == program = "index" => Index!TypeOK /\ Index!OnlyTheText

\* An index.dat that was left alone is accepted.
Accepted == program = "index" => Index!Accepted

\* "invalid index.dat size": undat refuses every file that has not even room for
\* the head, and so never gets lost in one.
ShortIsRefused == program = "index" => Index!ShortIsRefused
===============================================================================
