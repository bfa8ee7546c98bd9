---------------------------- MODULE GroestlTable ----------------------------
(***************************************************************************)
(* const uint32_t T[512] of aux_hash.c (line 195), the table COLUMN reads: *)
(* T[2b] and T[2b + 1] are the upper and lower words of the fused          *)
(* SubBytes/MixBytes contribution of the byte b.  Each entry is written    *)
(* W32(high 16 bits, low 16 bits) of the code's hexadecimal constant.      *)
(***************************************************************************)
EXTENDS Word

Ttab == <<
  W32(\hA5F4, \h32C6), W32(\hC6A5, \h97F4), W32(\h8497, \h6FF8), W32(\hF884, \hEB97),
  W32(\h99B0, \h5EEE), W32(\hEE99, \hC7B0), W32(\h8D8C, \h7AF6), W32(\hF68D, \hF78C),
  W32(\h0D17, \hE8FF), W32(\hFF0D, \hE517), W32(\hBDDC, \h0AD6), W32(\hD6BD, \hB7DC),
  W32(\hB1C8, \h16DE), W32(\hDEB1, \hA7C8), W32(\h54FC, \h6D91), W32(\h9154, \h39FC),
  W32(\h50F0, \h9060), W32(\h6050, \hC0F0), W32(\h0305, \h0702), W32(\h0203, \h0405),
  W32(\hA9E0, \h2ECE), W32(\hCEA9, \h87E0), W32(\h7D87, \hD156), W32(\h567D, \hAC87),
  W32(\h192B, \hCCE7), W32(\hE719, \hD52B), W32(\h62A6, \h13B5), W32(\hB562, \h71A6),
  W32(\hE631, \h7C4D), W32(\h4DE6, \h9A31), W32(\h9AB5, \h59EC), W32(\hEC9A, \hC3B5),
  W32(\h45CF, \h408F), W32(\h8F45, \h05CF), W32(\h9DBC, \hA31F), W32(\h1F9D, \h3EBC),
  W32(\h40C0, \h4989), W32(\h8940, \h09C0), W32(\h8792, \h68FA), W32(\hFA87, \hEF92),
  W32(\h153F, \hD0EF), W32(\hEF15, \hC53F), W32(\hEB26, \h94B2), W32(\hB2EB, \h7F26),
  W32(\hC940, \hCE8E), W32(\h8EC9, \h0740), W32(\h0B1D, \hE6FB), W32(\hFB0B, \hED1D),
  W32(\hEC2F, \h6E41), W32(\h41EC, \h822F), W32(\h67A9, \h1AB3), W32(\hB367, \h7DA9),
  W32(\hFD1C, \h435F), W32(\h5FFD, \hBE1C), W32(\hEA25, \h6045), W32(\h45EA, \h8A25),
  W32(\hBFDA, \hF923), W32(\h23BF, \h46DA), W32(\hF702, \h5153), W32(\h53F7, \hA602),
  W32(\h96A1, \h45E4), W32(\hE496, \hD3A1), W32(\h5BED, \h769B), W32(\h9B5B, \h2DED),
  W32(\hC25D, \h2875), W32(\h75C2, \hEA5D), W32(\h1C24, \hC5E1), W32(\hE11C, \hD924),
  W32(\hAEE9, \hD43D), W32(\h3DAE, \h7AE9), W32(\h6ABE, \hF24C), W32(\h4C6A, \h98BE),
  W32(\h5AEE, \h826C), W32(\h6C5A, \hD8EE), W32(\h41C3, \hBD7E), W32(\h7E41, \hFCC3),
  W32(\h0206, \hF3F5), W32(\hF502, \hF106), W32(\h4FD1, \h5283), W32(\h834F, \h1DD1),
  W32(\h5CE4, \h8C68), W32(\h685C, \hD0E4), W32(\hF407, \h5651), W32(\h51F4, \hA207),
  W32(\h345C, \h8DD1), W32(\hD134, \hB95C), W32(\h0818, \hE1F9), W32(\hF908, \hE918),
  W32(\h93AE, \h4CE2), W32(\hE293, \hDFAE), W32(\h7395, \h3EAB), W32(\hAB73, \h4D95),
  W32(\h53F5, \h9762), W32(\h6253, \hC4F5), W32(\h3F41, \h6B2A), W32(\h2A3F, \h5441),
  W32(\h0C14, \h1C08), W32(\h080C, \h1014), W32(\h52F6, \h6395), W32(\h9552, \h31F6),
  W32(\h65AF, \hE946), W32(\h4665, \h8CAF), W32(\h5EE2, \h7F9D), W32(\h9D5E, \h21E2),
  W32(\h2878, \h4830), W32(\h3028, \h6078), W32(\hA1F8, \hCF37), W32(\h37A1, \h6EF8),
  W32(\h0F11, \h1B0A), W32(\h0A0F, \h1411), W32(\hB5C4, \hEB2F), W32(\h2FB5, \h5EC4),
  W32(\h091B, \h150E), W32(\h0E09, \h1C1B), W32(\h365A, \h7E24), W32(\h2436, \h485A),
  W32(\h9BB6, \hAD1B), W32(\h1B9B, \h36B6), W32(\h3D47, \h98DF), W32(\hDF3D, \hA547),
  W32(\h266A, \hA7CD), W32(\hCD26, \h816A), W32(\h69BB, \hF54E), W32(\h4E69, \h9CBB),
  W32(\hCD4C, \h337F), W32(\h7FCD, \hFE4C), W32(\h9FBA, \h50EA), W32(\hEA9F, \hCFBA),
  W32(\h1B2D, \h3F12), W32(\h121B, \h242D), W32(\h9EB9, \hA41D), W32(\h1D9E, \h3AB9),
  W32(\h749C, \hC458), W32(\h5874, \hB09C), W32(\h2E72, \h4634), W32(\h342E, \h6872),
  W32(\h2D77, \h4136), W32(\h362D, \h6C77), W32(\hB2CD, \h11DC), W32(\hDCB2, \hA3CD),
  W32(\hEE29, \h9DB4), W32(\hB4EE, \h7329), W32(\hFB16, \h4D5B), W32(\h5BFB, \hB616),
  W32(\hF601, \hA5A4), W32(\hA4F6, \h5301), W32(\h4DD7, \hA176), W32(\h764D, \hECD7),
  W32(\h61A3, \h14B7), W32(\hB761, \h75A3), W32(\hCE49, \h347D), W32(\h7DCE, \hFA49),
  W32(\h7B8D, \hDF52), W32(\h527B, \hA48D), W32(\h3E42, \h9FDD), W32(\hDD3E, \hA142),
  W32(\h7193, \hCD5E), W32(\h5E71, \hBC93), W32(\h97A2, \hB113), W32(\h1397, \h26A2),
  W32(\hF504, \hA2A6), W32(\hA6F5, \h5704), W32(\h68B8, \h01B9), W32(\hB968, \h69B8),
  W32(\h0000, \h0000), W32(\h0000, \h0000), W32(\h2C74, \hB5C1), W32(\hC12C, \h9974),
  W32(\h60A0, \hE040), W32(\h4060, \h80A0), W32(\h1F21, \hC2E3), W32(\hE31F, \hDD21),
  W32(\hC843, \h3A79), W32(\h79C8, \hF243), W32(\hED2C, \h9AB6), W32(\hB6ED, \h772C),
  W32(\hBED9, \h0DD4), W32(\hD4BE, \hB3D9), W32(\h46CA, \h478D), W32(\h8D46, \h01CA),
  W32(\hD970, \h1767), W32(\h67D9, \hCE70), W32(\h4BDD, \hAF72), W32(\h724B, \hE4DD),
  W32(\hDE79, \hED94), W32(\h94DE, \h3379), W32(\hD467, \hFF98), W32(\h98D4, \h2B67),
  W32(\hE823, \h93B0), W32(\hB0E8, \h7B23), W32(\h4ADE, \h5B85), W32(\h854A, \h11DE),
  W32(\h6BBD, \h06BB), W32(\hBB6B, \h6DBD), W32(\h2A7E, \hBBC5), W32(\hC52A, \h917E),
  W32(\hE534, \h7B4F), W32(\h4FE5, \h9E34), W32(\h163A, \hD7ED), W32(\hED16, \hC13A),
  W32(\hC554, \hD286), W32(\h86C5, \h1754), W32(\hD762, \hF89A), W32(\h9AD7, \h2F62),
  W32(\h55FF, \h9966), W32(\h6655, \hCCFF), W32(\h94A7, \hB611), W32(\h1194, \h22A7),
  W32(\hCF4A, \hC08A), W32(\h8ACF, \h0F4A), W32(\h1030, \hD9E9), W32(\hE910, \hC930),
  W32(\h060A, \h0E04), W32(\h0406, \h080A), W32(\h8198, \h66FE), W32(\hFE81, \hE798),
  W32(\hF00B, \hABA0), W32(\hA0F0, \h5B0B), W32(\h44CC, \hB478), W32(\h7844, \hF0CC),
  W32(\hBAD5, \hF025), W32(\h25BA, \h4AD5), W32(\hE33E, \h754B), W32(\h4BE3, \h963E),
  W32(\hF30E, \hACA2), W32(\hA2F3, \h5F0E), W32(\hFE19, \h445D), W32(\h5DFE, \hBA19),
  W32(\hC05B, \hDB80), W32(\h80C0, \h1B5B), W32(\h8A85, \h8005), W32(\h058A, \h0A85),
  W32(\hADEC, \hD33F), W32(\h3FAD, \h7EEC), W32(\hBCDF, \hFE21), W32(\h21BC, \h42DF),
  W32(\h48D8, \hA870), W32(\h7048, \hE0D8), W32(\h040C, \hFDF1), W32(\hF104, \hF90C),
  W32(\hDF7A, \h1963), W32(\h63DF, \hC67A), W32(\hC158, \h2F77), W32(\h77C1, \hEE58),
  W32(\h759F, \h30AF), W32(\hAF75, \h459F), W32(\h63A5, \hE742), W32(\h4263, \h84A5),
  W32(\h3050, \h7020), W32(\h2030, \h4050), W32(\h1A2E, \hCBE5), W32(\hE51A, \hD12E),
  W32(\h0E12, \hEFFD), W32(\hFD0E, \hE112), W32(\h6DB7, \h08BF), W32(\hBF6D, \h65B7),
  W32(\h4CD4, \h5581), W32(\h814C, \h19D4), W32(\h143C, \h2418), W32(\h1814, \h303C),
  W32(\h355F, \h7926), W32(\h2635, \h4C5F), W32(\h2F71, \hB2C3), W32(\hC32F, \h9D71),
  W32(\hE138, \h86BE), W32(\hBEE1, \h6738), W32(\hA2FD, \hC835), W32(\h35A2, \h6AFD),
  W32(\hCC4F, \hC788), W32(\h88CC, \h0B4F), W32(\h394B, \h652E), W32(\h2E39, \h5C4B),
  W32(\h57F9, \h6A93), W32(\h9357, \h3DF9), W32(\hF20D, \h5855), W32(\h55F2, \hAA0D),
  W32(\h829D, \h61FC), W32(\hFC82, \hE39D), W32(\h47C9, \hB37A), W32(\h7A47, \hF4C9),
  W32(\hACEF, \h27C8), W32(\hC8AC, \h8BEF), W32(\hE732, \h88BA), W32(\hBAE7, \h6F32),
  W32(\h2B7D, \h4F32), W32(\h322B, \h647D), W32(\h95A4, \h42E6), W32(\hE695, \hD7A4),
  W32(\hA0FB, \h3BC0), W32(\hC0A0, \h9BFB), W32(\h98B3, \hAA19), W32(\h1998, \h32B3),
  W32(\hD168, \hF69E), W32(\h9ED1, \h2768), W32(\h7F81, \h22A3), W32(\hA37F, \h5D81),
  W32(\h66AA, \hEE44), W32(\h4466, \h88AA), W32(\h7E82, \hD654), W32(\h547E, \hA882),
  W32(\hABE6, \hDD3B), W32(\h3BAB, \h76E6), W32(\h839E, \h950B), W32(\h0B83, \h169E),
  W32(\hCA45, \hC98C), W32(\h8CCA, \h0345), W32(\h297B, \hBCC7), W32(\hC729, \h957B),
  W32(\hD36E, \h056B), W32(\h6BD3, \hD66E), W32(\h3C44, \h6C28), W32(\h283C, \h5044),
  W32(\h798B, \h2CA7), W32(\hA779, \h558B), W32(\hE23D, \h81BC), W32(\hBCE2, \h633D),
  W32(\h1D27, \h3116), W32(\h161D, \h2C27), W32(\h769A, \h37AD), W32(\hAD76, \h419A),
  W32(\h3B4D, \h96DB), W32(\hDB3B, \hAD4D), W32(\h56FA, \h9E64), W32(\h6456, \hC8FA),
  W32(\h4ED2, \hA674), W32(\h744E, \hE8D2), W32(\h1E22, \h3614), W32(\h141E, \h2822),
  W32(\hDB76, \hE492), W32(\h92DB, \h3F76), W32(\h0A1E, \h120C), W32(\h0C0A, \h181E),
  W32(\h6CB4, \hFC48), W32(\h486C, \h90B4), W32(\hE437, \h8FB8), W32(\hB8E4, \h6B37),
  W32(\h5DE7, \h789F), W32(\h9F5D, \h25E7), W32(\h6EB2, \h0FBD), W32(\hBD6E, \h61B2),
  W32(\hEF2A, \h6943), W32(\h43EF, \h862A), W32(\hA6F1, \h35C4), W32(\hC4A6, \h93F1),
  W32(\hA8E3, \hDA39), W32(\h39A8, \h72E3), W32(\hA4F7, \hC631), W32(\h31A4, \h62F7),
  W32(\h3759, \h8AD3), W32(\hD337, \hBD59), W32(\h8B86, \h74F2), W32(\hF28B, \hFF86),
  W32(\h3256, \h83D5), W32(\hD532, \hB156), W32(\h43C5, \h4E8B), W32(\h8B43, \h0DC5),
  W32(\h59EB, \h856E), W32(\h6E59, \hDCEB), W32(\hB7C2, \h18DA), W32(\hDAB7, \hAFC2),
  W32(\h8C8F, \h8E01), W32(\h018C, \h028F), W32(\h64AC, \h1DB1), W32(\hB164, \h79AC),
  W32(\hD26D, \hF19C), W32(\h9CD2, \h236D), W32(\hE03B, \h7249), W32(\h49E0, \h923B),
  W32(\hB4C7, \h1FD8), W32(\hD8B4, \hABC7), W32(\hFA15, \hB9AC), W32(\hACFA, \h4315),
  W32(\h0709, \hFAF3), W32(\hF307, \hFD09), W32(\h256F, \hA0CF), W32(\hCF25, \h856F),
  W32(\hAFEA, \h20CA), W32(\hCAAF, \h8FEA), W32(\h8E89, \h7DF4), W32(\hF48E, \hF389),
  W32(\hE920, \h6747), W32(\h47E9, \h8E20), W32(\h1828, \h3810), W32(\h1018, \h2028),
  W32(\hD564, \h0B6F), W32(\h6FD5, \hDE64), W32(\h8883, \h73F0), W32(\hF088, \hFB83),
  W32(\h6FB1, \hFB4A), W32(\h4A6F, \h94B1), W32(\h7296, \hCA5C), W32(\h5C72, \hB896),
  W32(\h246C, \h5438), W32(\h3824, \h706C), W32(\hF108, \h5F57), W32(\h57F1, \hAE08),
  W32(\hC752, \h2173), W32(\h73C7, \hE652), W32(\h51F3, \h6497), W32(\h9751, \h35F3),
  W32(\h2365, \hAECB), W32(\hCB23, \h8D65), W32(\h7C84, \h25A1), W32(\hA17C, \h5984),
  W32(\h9CBF, \h57E8), W32(\hE89C, \hCBBF), W32(\h2163, \h5D3E), W32(\h3E21, \h7C63),
  W32(\hDD7C, \hEA96), W32(\h96DD, \h377C), W32(\hDC7F, \h1E61), W32(\h61DC, \hC27F),
  W32(\h8691, \h9C0D), W32(\h0D86, \h1A91), W32(\h8594, \h9B0F), W32(\h0F85, \h1E94),
  W32(\h90AB, \h4BE0), W32(\hE090, \hDBAB), W32(\h42C6, \hBA7C), W32(\h7C42, \hF8C6),
  W32(\hC457, \h2671), W32(\h71C4, \hE257), W32(\hAAE5, \h29CC), W32(\hCCAA, \h83E5),
  W32(\hD873, \hE390), W32(\h90D8, \h3B73), W32(\h050F, \h0906), W32(\h0605, \h0C0F),
  W32(\h0103, \hF4F7), W32(\hF701, \hF503), W32(\h1236, \h2A1C), W32(\h1C12, \h3836),
  W32(\hA3FE, \h3CC2), W32(\hC2A3, \h9FFE), W32(\h5FE1, \h8B6A), W32(\h6A5F, \hD4E1),
  W32(\hF910, \hBEAE), W32(\hAEF9, \h4710), W32(\hD06B, \h0269), W32(\h69D0, \hD26B),
  W32(\h91A8, \hBF17), W32(\h1791, \h2EA8), W32(\h58E8, \h7199), W32(\h9958, \h29E8),
  W32(\h2769, \h533A), W32(\h3A27, \h7469), W32(\hB9D0, \hF727), W32(\h27B9, \h4ED0),
  W32(\h3848, \h91D9), W32(\hD938, \hA948), W32(\h1335, \hDEEB), W32(\hEB13, \hCD35),
  W32(\hB3CE, \hE52B), W32(\h2BB3, \h56CE), W32(\h3355, \h7722), W32(\h2233, \h4455),
  W32(\hBBD6, \h04D2), W32(\hD2BB, \hBFD6), W32(\h7090, \h39A9), W32(\hA970, \h4990),
  W32(\h8980, \h8707), W32(\h0789, \h0E80), W32(\hA7F2, \hC133), W32(\h33A7, \h66F2),
  W32(\hB6C1, \hEC2D), W32(\h2DB6, \h5AC1), W32(\h2266, \h5A3C), W32(\h3C22, \h7866),
  W32(\h92AD, \hB815), W32(\h1592, \h2AAD), W32(\h2060, \hA9C9), W32(\hC920, \h8960),
  W32(\h49DB, \h5C87), W32(\h8749, \h15DB), W32(\hFF1A, \hB0AA), W32(\hAAFF, \h4F1A),
  W32(\h7888, \hD850), W32(\h5078, \hA088), W32(\h7A8E, \h2BA5), W32(\hA57A, \h518E),
  W32(\h8F8A, \h8903), W32(\h038F, \h068A), W32(\hF813, \h4A59), W32(\h59F8, \hB213),
  W32(\h809B, \h9209), W32(\h0980, \h129B), W32(\h1739, \h231A), W32(\h1A17, \h3439),
  W32(\hDA75, \h1065), W32(\h65DA, \hCA75), W32(\h3153, \h84D7), W32(\hD731, \hB553),
  W32(\hC651, \hD584), W32(\h84C6, \h1351), W32(\hB8D3, \h03D0), W32(\hD0B8, \hBBD3),
  W32(\hC35E, \hDC82), W32(\h82C3, \h1F5E), W32(\hB0CB, \hE229), W32(\h29B0, \h52CB),
  W32(\h7799, \hC35A), W32(\h5A77, \hB499), W32(\h1133, \h2D1E), W32(\h1E11, \h3C33),
  W32(\hCB46, \h3D7B), W32(\h7BCB, \hF646), W32(\hFC1F, \hB7A8), W32(\hA8FC, \h4B1F),
  W32(\hD661, \h0C6D), W32(\h6DD6, \hDA61), W32(\h3A4E, \h622C), W32(\h2C3A, \h584E) >>

\* Faulty variant: one entry of the table mistyped in its lowest bit.
TEntryTypo(k) == IF k = 301 THEN WXor(Ttab[k + 1], W32(0, 1)) ELSE Ttab[k + 1]

\* T[k]
TEntry(k) == Ttab[k + 1]
==============================================================================
