----------------------------- MODULE PackageTools -----------------------------
(***************************************************************************)
(* The two pairs of programs that pack a directory and unpack it again:    *)
(* cospkg with cosunpkg, and puppack with pupunpack.  The variable program *)
(* says which of them the behaviour is about; the other pair stays where   *)
(* it is.                                                                  *)
(***************************************************************************)
EXTENDS CosPackage

CONSTANTS
    PupNames, PupInputs, PupKeys, PupNoKey, PupMaxFiles, PupMaxDamage  \* those of Pup

VARIABLES
    program,
    u_input, u_keys, u_pc, u_t, u_files, u_pup, u_made, u_damage,
    u_hdr_hmac, u_hmac_res, u_out

update == <<u_input, u_keys, u_pc, u_t, u_files, u_pup, u_made, u_damage,
            u_hdr_hmac, u_hmac_res, u_out>>
all    == <<program, vars, update>>

Update == INSTANCE Pup WITH
    Names <- PupNames, Inputs <- PupInputs, Keys <- PupKeys, NoKey <- PupNoKey,
    MAX_FILES <- PupMaxFiles, MaxDamage <- PupMaxDamage,
    input <- u_input, keys <- u_keys, pc <- u_pc, t <- u_t, files <- u_files, pup <- u_pup,
    made <- u_made, damage <- u_damage, hdr_hmac <- u_hdr_hmac, hmac_res <- u_hmac_res,
    out <- u_out

ASSUME UpdateAssumption ==
    Update!NamesAssumption /\ Update!InputsAssumption /\ Update!NumbersAssumption

-----------------------------------------------------------------------------
\* The directories of the pair the behaviour is not about.
SomeDirectory == CHOOSE d \in Directories : TRUE
SomeInput     == CHOOSE d \in PupInputs : TRUE

Idle == dir = SomeDirectory /\ Init

UpdateIdle ==
    /\ u_input = SomeInput /\ u_keys = [pack |-> PupNoKey, unpack |-> PupNoKey]
    /\ Update!Init

ToolsInit ==
    \/ program = "cos" /\ Init /\ UpdateIdle
    \/ program = "pup" /\ Idle /\ Update!Init

Cos == program = "cos" /\ Next /\ UNCHANGED <<program, update>>
Pup == program = "pup" /\ Update!Next /\ UNCHANGED <<program, vars>>

ToolsNext == Cos \/ Pup

ToolsSpec == ToolsInit /\ [][ToolsNext]_all

-----------------------------------------------------------------------------
\* Below an intact table a section is OK exactly when its file is the one packed,
\* and OK for everything means that the package is the one puppack wrote.
PupVerdicts == program = "pup" => Update!TypeOK /\ Update!PupVerdicts

\* An intact package comes out, with the verdict that the key deserves.
IntactComesOut == program = "pup" => Update!IntactComesOut
===============================================================================
