--------------------------- MODULE MCSlotMonitor ---------------------------
(* One cell, with the thresholds of the sources and a short idle timeout.    *)
EXTENDS SlotMonitor
============================================================================
