----------------------------- MODULE MCStartup -----------------------------
(* An arm64 process in small: addresses are below 16, and a tag is worth 16. *)
EXTENDS Startup

Mapping(start, end, protection, file) ==
    [start |-> start, end |-> end, protection |-> protection, file |-> file]

Oat      == Mapping(2, 4, "r-x", "oat")
Scratch  == Mapping(4, 6, "rw-", "library")
Sealed   == Mapping(4, 6, "r--", "anonymous")
Libart   == Mapping(6, 8, "r-x", "libart")
JitCache == Mapping(8, 10, "r-x", "anonymous")
Library  == Mapping(10, 11, "r-x", "longLibrary")
SoInPath == Mapping(11, 12, "r-x", "oatBySo")
Heap     == Mapping(12, 16, "rw-", "anonymous")

MCFixed    == {Oat, Libart, JitCache, Library, SoInPath, Heap}
MCMappings == MCFixed \cup {Scratch, Sealed}

MCResolutionStub == 6     \* the first address of libart's code
GenericJni       == 7     \* what a native of an initialised class runs
CompiledJni      == 2     \* ... if dex2oat compiled a stub for it
Compiled         == 3
Jitted           == 9
Tag              == 16

MCProbeEntries    == {Null, MCResolutionStub, GenericJni, CompiledJni}
MCNanoTimeEntries == {Null, GenericJni, CompiledJni}
MCTargetEntries   == {Compiled, Jitted}
MCRuntimes        == {13 + Tag, 15 + Tag}
MCPointers        == 0..31
MCDecoySets       == {{}, {28}, {36}, {8, 28}}
=============================================================================
