----------------------------- MODULE MCAdapters -----------------------------
(* Adapters on one ELF file with a secret and two URLs among its strings,   *)
(* a risky import with one call site, two traces of one function and an     *)
(* agent that submits a claim twice and one that its evidence does not fit. *)
EXTENDS Adapters

MCHeaders ==
    [file |-> [path |-> "bin/agent", sha256 |-> "d1", format |-> "elf", arch |-> "arm"],
     sections |-> <<[name |-> ".rodata", addr_start |-> 100, addr_end |-> 140,
                     file_offset |-> 20, permissions |-> "r", initialized |-> TRUE],
                    [name |-> ".comment", addr_start |-> 0, addr_end |-> 10,
                     file_offset |-> 70, permissions |-> "r", initialized |-> TRUE]>>,
     imports |-> <<[name |-> "strcpy"]>>,
     exports |-> <<[name |-> "main", addr |-> 40]>>,
     symbols |-> <<[name |-> "main", addr |-> 40]>>,
     hardening |-> <<[feature |-> "nx", present |-> TRUE]>>,
     strings |-> <<[text |-> "key", encoding |-> "ascii", file_offset |-> 25, length |-> 3],
                   [text |-> "url1", encoding |-> "ascii", file_offset |-> 30, length |-> 4],
                   [text |-> "url2", encoding |-> "ascii", file_offset |-> 72, length |-> 4],
                   [text |-> "pad", encoding |-> "ascii", file_offset |-> 90, length |-> 3]>>]

\* Ghidra's ends are inclusive, and it knows where strcpy is bound.
MCDisassembly ==
    [sections |-> <<[name |-> ".rodata", addr_start |-> 100, addr_end |-> 139,
                     permissions |-> "r", initialized |-> TRUE]>>,
     functions |-> <<[name |-> "main", addr_start |-> 40, addr_end |-> 59,
                      is_thunk |-> FALSE, is_external |-> FALSE],
                     [name |-> "FUN_60", addr_start |-> 60, size |-> 8,
                      is_thunk |-> FALSE, is_external |-> FALSE]>>,
     strings |-> <<[text |-> "key", encoding |-> "ascii", addr |-> 105, length |-> 3]>>,
     symbols |-> <<[name |-> "main", addr |-> 40, symbol_type |-> "function"]>>,
     xrefs |-> <<[from_addr |-> 45, to_addr |-> 80, ref_type |-> "call",
                  from_function |-> "main", to_function |-> "_strcpy"],
                 [from_addr |-> 62, to_addr |-> 40, ref_type |-> "jump",
                  from_function |-> "FUN_60", to_function |-> "main"]>>,
     decompilation |-> <<[function_addr |-> 40, function_name |-> "main",
                          code |-> "body", decompiler |-> "ghidra"]>>,
     imports |-> <<[name |-> "strcpy", library |-> "libc", addr |-> 80]>>,
     exports |-> <<[name |-> "main", addr |-> 40]>>]

\* The second was loaded at 1000, which two entry points tell.
MCTraces ==
    [plain |-> [given |-> None, log |-> <<40, 45, 45>>],
     pie   |-> [given |-> None, log |-> <<1040, 1060, 1045, 1047, 1045>>]]

Secret ==
    [predicate |-> "contains_hardcoded_secret",
     statement |-> [secret_kind |-> "password", detector |-> "rule:pw"],
     confidence |-> 80, method |-> "string-pattern"]

Url(preview) ==
    [predicate |-> "suspicious_string",
     statement |-> [category |-> "url", detector |-> "rule:url", preview |-> preview],
     confidence |-> 60, method |-> "string-pattern"]

MCDetections == [key |-> <<Secret>>, url1 |-> <<Url("1")>>, url2 |-> <<Url("2")>>]

MCRiskyApis == [strcpy |-> [category |-> "memory_copy", confidence |-> 70]]

MCStripped == [_strcpy |-> "strcpy"]

SecretClaim ==
    ClaimOf(Secret.predicate, Secret.statement,
            {Locus(IdIn("string", [text |-> "key", encoding |-> "ascii", addr |-> 105]))})

Submitted(claim, confidence) ==
    [claim |-> claim, confidence |-> confidence, producer |-> "agent"]

\* One has a confidence out of range, the last cites an import where its
\* predicate wants a string.
MCSubmissions ==
    {Submitted(SecretClaim, 90), Submitted(SecretClaim, 30), Submitted(SecretClaim, 130),
     Submitted(ClaimOf("contains_string", [text |-> "key"],
                       {Locus(IdIn("import", [name |-> "strcpy"]))}), 90)}
=============================================================================
