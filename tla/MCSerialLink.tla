---------------------------- MODULE MCSerialLink ----------------------------
(* Payloads of the real lengths, shorter ones where the length is not the  *)
(* point; what a board that is claimed or not, another network and a       *)
(* longer frame may look like.                                             *)
EXTENDS SerialLink

MCCommands == {encode_claim_frame(258, 0)}
MCConfigs == {encode_config_frame(515, 70000, 2500)}
MCAir == {encode_data_frame(515, 1, 100, 66051),
          <<DATA, 8, 1, 255, 255, 255, 255, 7, 0, 99>>}
MCAnnounces == {encode_announce_frame(771)}
MCRssi == {<<"-", "5", "2">>, <<"-", "5">>}
=============================================================================
