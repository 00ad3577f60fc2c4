--------------------------- MODULE MCSocketReaders ---------------------------
(* Answers for SocketReaders: no station, no information on it, information  *)
(* that does not parse, a rate missing or not parsed, complete, one counter *)
(* missing, and pairs.                                                      *)
EXTENDS SocketReaders

NoInfo  == {"MAC"}
BadInfo == {"STA_INFO", "STA_INFO_BAD", "RX_PACKETS", "SIGNAL"}
NoTx    == {"STA_INFO", "SIGNAL", "CHAIN_SIGNAL", "RX_BITRATE"}
BadTx   == {"STA_INFO", "TX_BITRATE", "TX_BITRATE_BAD", "TX_WIDTH", "RX_BITRATE"}
NoRx    == {"STA_INFO", "TX_PACKETS", "RX_PACKETS", "TX_BITRATE"}
BadRx   == {"STA_INFO", "TX_BITRATE", "TX_WIDTH", "RX_BITRATE", "RX_BITRATE_BAD", "RX_WIDTH"}
Full    == {"STA_INFO", "TX_BYTES", "RX_BYTES", "TX_BITRATE", "TX_WIDTH", "RX_BITRATE"}
NoTxPackets == {"STA_INFO", "RX_PACKETS"}

MCStations == {<<>>, <<NoInfo>>, <<BadInfo>>, <<NoTx>>, <<NoRx>>, <<BadTx>>, <<Full>>,
               <<NoTxPackets>>, <<NoInfo, Full>>, <<Full, NoTx, BadRx>>, <<NoRx, NoTxPackets>>}
==============================================================================
