----------------------------- MODULE MCChainload -----------------------------
(***************************************************************************)
(* The instance of Chainload for TLC: BIOS boxes, with and without option  *)
(* 93 and one without PXE, UEFI ones over TFTP and over HTTP, one with an  *)
(* architecture that is missing from the table (EBC), an ia32 box and one  *)
(* of a foreign architecture, which can run none of the binaries, and arm  *)
(* boxes.                                                                  *)
(***************************************************************************)
EXTENDS Chainload

Box(class, archs, runs) == [class |-> class, archs |-> archs, runs |-> runs]

MCHardware ==
    {Box("PXEClient", <<"BIOS">>, {"undionly.kpxe"}),
     Box("PXEClient", <<>>, {"undionly.kpxe"}),
     Box("none", <<>>, {"undionly.kpxe"}),
     Box("PXEClient", <<"X64", "BIOS">>, {"ipxe.efi", "snponly.efi"}),
     Box("HTTPClient", <<"X64_HTTP">>, {"ipxe.efi", "snponly.efi"}),
     Box("PXEClient", <<"EBC">>, {"ipxe.efi", "snponly.efi"}),
     Box("PXEClient", <<"IA32">>, {}),
     Box("PXEClient", <<"RISCV">>, {}),
     Box("PXEClient", <<"ARM64">>, {"ipxe-arm64.efi"}),
     Box("HTTPClient", <<"ARM64_HTTP">>, {"ipxe-arm64.efi"})}

=============================================================================
