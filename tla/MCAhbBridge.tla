---------------------------- MODULE MCAhbBridge -----------------------------
(* The instance of AhbBridge: SYSCLK is twice BUSCLK (src/fpga/top.ve).    *)
EXTENDS AhbBridge

At(region, pieces) == {<<region, p[1], p[2]>> : p \in pieces}

MCPrograms ==
  { At("sram", {<<0, 2>>, <<2, 1>>, <<1, 0>>}) \cup At("none", {<<0, 2>>}),
    At("sys", {<<3, 2>>, <<4, 2>>, <<6, 2>>, <<7, 2>>}) \cup At("sd", {<<0, 2>>}),
    At("pram", {<<0, 2>>, <<2, 1>>, <<1, 0>>}),
    At("pram", {<<0, 1>>, <<2, 0>>, <<3, 0>>}),
    At("pram", {<<0, 2>>}) \cup At("sram", {<<0, 2>>}) }

ASSUME MCPrograms \subseteq SUBSET AllPlaces
=============================================================================
