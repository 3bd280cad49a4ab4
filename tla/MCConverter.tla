---------------------------- MODULE MCConverter ----------------------------
(* All sentences of the library and of the devices it reads.               *)
EXTENDS Converter

Listened == Handled
Others   == {"HDM", "HDG", "ROT", "SHR", "DBx", "VDM", "VDO", "RMB", "WPL", "BOD", "APB", "RTE"}
AllCodes == Listened \cup Others
=============================================================================
