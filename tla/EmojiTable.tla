----------------------------- MODULE EmojiTable -----------------------------
(***************************************************************************)
(* The tables of emoji_table.h, as gen-emoji-table.py wrote them: for each *)
(* property of Unicode the intervals <<start, end>> of the codepoints that *)
(* have it.  Extended_Pictographic_table is left out, as nothing reads it. *)
(***************************************************************************)
EXTENDS Integers, Sequences

Emoji_table == <<
    <<\h23,\h23>>, <<\h2A,\h2A>>, <<\h30,\h39>>, <<\hA9,\hA9>>, <<\hAE,\hAE>>, <<\h203C,\h203C>>,
    <<\h2049,\h2049>>, <<\h2122,\h2122>>, <<\h2139,\h2139>>, <<\h2194,\h2199>>, <<\h21A9,\h21AA>>,
    <<\h231A,\h231B>>, <<\h2328,\h2328>>, <<\h23CF,\h23CF>>, <<\h23E9,\h23F3>>, <<\h23F8,\h23FA>>,
    <<\h24C2,\h24C2>>, <<\h25AA,\h25AB>>, <<\h25B6,\h25B6>>, <<\h25C0,\h25C0>>, <<\h25FB,\h25FE>>,
    <<\h2600,\h2604>>, <<\h260E,\h260E>>, <<\h2611,\h2611>>, <<\h2614,\h2615>>, <<\h2618,\h2618>>,
    <<\h261D,\h261D>>, <<\h2620,\h2620>>, <<\h2622,\h2623>>, <<\h2626,\h2626>>, <<\h262A,\h262A>>,
    <<\h262E,\h262F>>, <<\h2638,\h263A>>, <<\h2640,\h2640>>, <<\h2642,\h2642>>, <<\h2648,\h2653>>,
    <<\h265F,\h2660>>, <<\h2663,\h2663>>, <<\h2665,\h2666>>, <<\h2668,\h2668>>, <<\h267B,\h267B>>,
    <<\h267E,\h267F>>, <<\h2692,\h2697>>, <<\h2699,\h2699>>, <<\h269B,\h269C>>, <<\h26A0,\h26A1>>,
    <<\h26A7,\h26A7>>, <<\h26AA,\h26AB>>, <<\h26B0,\h26B1>>, <<\h26BD,\h26BE>>, <<\h26C4,\h26C5>>,
    <<\h26C8,\h26C8>>, <<\h26CE,\h26CF>>, <<\h26D1,\h26D1>>, <<\h26D3,\h26D4>>, <<\h26E9,\h26EA>>,
    <<\h26F0,\h26F5>>, <<\h26F7,\h26FA>>, <<\h26FD,\h26FD>>, <<\h2702,\h2702>>, <<\h2705,\h2705>>,
    <<\h2708,\h270D>>, <<\h270F,\h270F>>, <<\h2712,\h2712>>, <<\h2714,\h2714>>, <<\h2716,\h2716>>,
    <<\h271D,\h271D>>, <<\h2721,\h2721>>, <<\h2728,\h2728>>, <<\h2733,\h2734>>, <<\h2744,\h2744>>,
    <<\h2747,\h2747>>, <<\h274C,\h274C>>, <<\h274E,\h274E>>, <<\h2753,\h2755>>, <<\h2757,\h2757>>,
    <<\h2763,\h2764>>, <<\h2795,\h2797>>, <<\h27A1,\h27A1>>, <<\h27B0,\h27B0>>, <<\h27BF,\h27BF>>,
    <<\h2934,\h2935>>, <<\h2B05,\h2B07>>, <<\h2B1B,\h2B1C>>, <<\h2B50,\h2B50>>, <<\h2B55,\h2B55>>,
    <<\h3030,\h3030>>, <<\h303D,\h303D>>, <<\h3297,\h3297>>, <<\h3299,\h3299>>, <<\h1F004,\h1F004>>,
    <<\h1F0CF,\h1F0CF>>, <<\h1F170,\h1F171>>, <<\h1F17E,\h1F17F>>, <<\h1F18E,\h1F18E>>, <<\h1F191,\h1F19A>>,
    <<\h1F1E6,\h1F1FF>>, <<\h1F201,\h1F202>>, <<\h1F21A,\h1F21A>>, <<\h1F22F,\h1F22F>>, <<\h1F232,\h1F23A>>,
    <<\h1F250,\h1F251>>, <<\h1F300,\h1F321>>, <<\h1F324,\h1F393>>, <<\h1F396,\h1F397>>, <<\h1F399,\h1F39B>>,
    <<\h1F39E,\h1F3F0>>, <<\h1F3F3,\h1F3F5>>, <<\h1F3F7,\h1F4FD>>, <<\h1F4FF,\h1F53D>>, <<\h1F549,\h1F54E>>,
    <<\h1F550,\h1F567>>, <<\h1F56F,\h1F570>>, <<\h1F573,\h1F57A>>, <<\h1F587,\h1F587>>, <<\h1F58A,\h1F58D>>,
    <<\h1F590,\h1F590>>, <<\h1F595,\h1F596>>, <<\h1F5A4,\h1F5A5>>, <<\h1F5A8,\h1F5A8>>, <<\h1F5B1,\h1F5B2>>,
    <<\h1F5BC,\h1F5BC>>, <<\h1F5C2,\h1F5C4>>, <<\h1F5D1,\h1F5D3>>, <<\h1F5DC,\h1F5DE>>, <<\h1F5E1,\h1F5E1>>,
    <<\h1F5E3,\h1F5E3>>, <<\h1F5E8,\h1F5E8>>, <<\h1F5EF,\h1F5EF>>, <<\h1F5F3,\h1F5F3>>, <<\h1F5FA,\h1F64F>>,
    <<\h1F680,\h1F6C5>>, <<\h1F6CB,\h1F6D2>>, <<\h1F6D5,\h1F6D7>>, <<\h1F6DC,\h1F6E5>>, <<\h1F6E9,\h1F6E9>>,
    <<\h1F6EB,\h1F6EC>>, <<\h1F6F0,\h1F6F0>>, <<\h1F6F3,\h1F6FC>>, <<\h1F7E0,\h1F7EB>>, <<\h1F7F0,\h1F7F0>>,
    <<\h1F90C,\h1F93A>>, <<\h1F93C,\h1F945>>, <<\h1F947,\h1F9FF>>, <<\h1FA70,\h1FA7C>>, <<\h1FA80,\h1FA88>>,
    <<\h1FA90,\h1FABD>>, <<\h1FABF,\h1FAC5>>, <<\h1FACE,\h1FADB>>, <<\h1FAE0,\h1FAE8>>, <<\h1FAF0,\h1FAF8>>>>
Emoji_Presentation_table == <<
    <<\h231A,\h231B>>, <<\h23E9,\h23EC>>, <<\h23F0,\h23F0>>, <<\h23F3,\h23F3>>, <<\h25FD,\h25FE>>,
    <<\h2614,\h2615>>, <<\h2648,\h2653>>, <<\h267F,\h267F>>, <<\h2693,\h2693>>, <<\h26A1,\h26A1>>,
    <<\h26AA,\h26AB>>, <<\h26BD,\h26BE>>, <<\h26C4,\h26C5>>, <<\h26CE,\h26CE>>, <<\h26D4,\h26D4>>,
    <<\h26EA,\h26EA>>, <<\h26F2,\h26F3>>, <<\h26F5,\h26F5>>, <<\h26FA,\h26FA>>, <<\h26FD,\h26FD>>,
    <<\h2705,\h2705>>, <<\h270A,\h270B>>, <<\h2728,\h2728>>, <<\h274C,\h274C>>, <<\h274E,\h274E>>,
    <<\h2753,\h2755>>, <<\h2757,\h2757>>, <<\h2795,\h2797>>, <<\h27B0,\h27B0>>, <<\h27BF,\h27BF>>,
    <<\h2B1B,\h2B1C>>, <<\h2B50,\h2B50>>, <<\h2B55,\h2B55>>, <<\h1F004,\h1F004>>, <<\h1F0CF,\h1F0CF>>,
    <<\h1F18E,\h1F18E>>, <<\h1F191,\h1F19A>>, <<\h1F1E6,\h1F1FF>>, <<\h1F201,\h1F201>>, <<\h1F21A,\h1F21A>>,
    <<\h1F22F,\h1F22F>>, <<\h1F232,\h1F236>>, <<\h1F238,\h1F23A>>, <<\h1F250,\h1F251>>, <<\h1F300,\h1F320>>,
    <<\h1F32D,\h1F335>>, <<\h1F337,\h1F37C>>, <<\h1F37E,\h1F393>>, <<\h1F3A0,\h1F3CA>>, <<\h1F3CF,\h1F3D3>>,
    <<\h1F3E0,\h1F3F0>>, <<\h1F3F4,\h1F3F4>>, <<\h1F3F8,\h1F43E>>, <<\h1F440,\h1F440>>, <<\h1F442,\h1F4FC>>,
    <<\h1F4FF,\h1F53D>>, <<\h1F54B,\h1F54E>>, <<\h1F550,\h1F567>>, <<\h1F57A,\h1F57A>>, <<\h1F595,\h1F596>>,
    <<\h1F5A4,\h1F5A4>>, <<\h1F5FB,\h1F64F>>, <<\h1F680,\h1F6C5>>, <<\h1F6CC,\h1F6CC>>, <<\h1F6D0,\h1F6D2>>,
    <<\h1F6D5,\h1F6D7>>, <<\h1F6DC,\h1F6DF>>, <<\h1F6EB,\h1F6EC>>, <<\h1F6F4,\h1F6FC>>, <<\h1F7E0,\h1F7EB>>,
    <<\h1F7F0,\h1F7F0>>, <<\h1F90C,\h1F93A>>, <<\h1F93C,\h1F945>>, <<\h1F947,\h1F9FF>>, <<\h1FA70,\h1FA7C>>,
    <<\h1FA80,\h1FA88>>, <<\h1FA90,\h1FABD>>, <<\h1FABF,\h1FAC5>>, <<\h1FACE,\h1FADB>>, <<\h1FAE0,\h1FAE8>>,
    <<\h1FAF0,\h1FAF8>>>>
Emoji_Modifier_table == <<
    <<\h1F3FB,\h1F3FF>>>>
Emoji_Modifier_Base_table == <<
    <<\h261D,\h261D>>, <<\h26F9,\h26F9>>, <<\h270A,\h270D>>, <<\h1F385,\h1F385>>, <<\h1F3C2,\h1F3C4>>,
    <<\h1F3C7,\h1F3C7>>, <<\h1F3CA,\h1F3CC>>, <<\h1F442,\h1F443>>, <<\h1F446,\h1F450>>, <<\h1F466,\h1F478>>,
    <<\h1F47C,\h1F47C>>, <<\h1F481,\h1F483>>, <<\h1F485,\h1F487>>, <<\h1F48F,\h1F48F>>, <<\h1F491,\h1F491>>,
    <<\h1F4AA,\h1F4AA>>, <<\h1F574,\h1F575>>, <<\h1F57A,\h1F57A>>, <<\h1F590,\h1F590>>, <<\h1F595,\h1F596>>,
    <<\h1F645,\h1F647>>, <<\h1F64B,\h1F64F>>, <<\h1F6A3,\h1F6A3>>, <<\h1F6B4,\h1F6B6>>, <<\h1F6C0,\h1F6C0>>,
    <<\h1F6CC,\h1F6CC>>, <<\h1F90C,\h1F90C>>, <<\h1F90F,\h1F90F>>, <<\h1F918,\h1F91F>>, <<\h1F926,\h1F926>>,
    <<\h1F930,\h1F939>>, <<\h1F93C,\h1F93E>>, <<\h1F977,\h1F977>>, <<\h1F9B5,\h1F9B6>>, <<\h1F9B8,\h1F9B9>>,
    <<\h1F9BB,\h1F9BB>>, <<\h1F9CD,\h1F9CF>>, <<\h1F9D1,\h1F9DD>>, <<\h1FAC3,\h1FAC5>>, <<\h1FAF0,\h1FAF8>>>>
=============================================================================
