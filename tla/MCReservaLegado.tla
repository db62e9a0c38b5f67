-------------------------- MODULE MCReservaLegado ---------------------------
(***************************************************************************)
(* An instance of ReservaLegado: hours 40 minutes apart or less, one       *)
(* barber, one tab.                                                        *)
(***************************************************************************)
EXTENDS ReservaLegado, TLC

CONSTANTS s1, s2, ta

MCUnHueco(m) == [barberoId |-> 1, fecha |-> 1, hora |-> m]
MCHuecos == {MCUnHueco(600), MCUnHueco(630), MCUnHueco(640), MCUnHueco(660)}

MCFila(i, h, e) == [id |-> i, hueco |-> h, estado |-> e, propia |-> FALSE]
MCPrueba == {MCFila(101, MCUnHueco(660), "CONFIRMADA")}

\* A row of the backend that others take, cancel and delete.
MCFilas == {MCFila(1, MCUnHueco(600), "PENDIENTE"), MCFila(1, MCUnHueco(600), "CANCELADA")}

\* Two submits of one tab.
MCUnaPestana == [s \in Envios |-> ta]
=============================================================================
