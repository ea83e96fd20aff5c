----------------------------- MODULE CrcTables -----------------------------
(***************************************************************************)
(* The tables of PureJavaCrc32C, as they stand in the source: two numbers  *)
(* for each entry, its upper and its lower 16 bits.                        *)
(***************************************************************************)

T8_0 ==
  <<\h0000, \h0000, \hF26B, \h8303, \hE13B, \h70F7, \h1350, \hF3F4, \hC79A, \h971F, \h35F1, \h141C,
    \h26A1, \hE7E8, \hD4CA, \h64EB, \h8AD9, \h58CF, \h78B2, \hDBCC, \h6BE2, \h2838, \h9989, \hAB3B,
    \h4D43, \hCFD0, \hBF28, \h4CD3, \hAC78, \hBF27, \h5E13, \h3C24, \h105E, \hC76F, \hE235, \h446C,
    \hF165, \hB798, \h030E, \h349B, \hD7C4, \h5070, \h25AF, \hD373, \h36FF, \h2087, \hC494, \hA384,
    \h9A87, \h9FA0, \h68EC, \h1CA3, \h7BBC, \hEF57, \h89D7, \h6C54, \h5D1D, \h08BF, \hAF76, \h8BBC,
    \hBC26, \h7848, \h4E4D, \hFB4B, \h20BD, \h8EDE, \hD2D6, \h0DDD, \hC186, \hFE29, \h33ED, \h7D2A,
    \hE727, \h19C1, \h154C, \h9AC2, \h061C, \h6936, \hF477, \hEA35, \hAA64, \hD611, \h580F, \h5512,
    \h4B5F, \hA6E6, \hB934, \h25E5, \h6DFE, \h410E, \h9F95, \hC20D, \h8CC5, \h31F9, \h7EAE, \hB2FA,
    \h30E3, \h49B1, \hC288, \hCAB2, \hD1D8, \h3946, \h23B3, \hBA45, \hF779, \hDEAE, \h0512, \h5DAD,
    \h1642, \hAE59, \hE429, \h2D5A, \hBA3A, \h117E, \h4851, \h927D, \h5B01, \h6189, \hA96A, \hE28A,
    \h7DA0, \h8661, \h8FCB, \h0562, \h9C9B, \hF696, \h6EF0, \h7595, \h417B, \h1DBC, \hB310, \h9EBF,
    \hA040, \h6D4B, \h522B, \hEE48, \h86E1, \h8AA3, \h748A, \h09A0, \h67DA, \hFA54, \h95B1, \h7957,
    \hCBA2, \h4573, \h39C9, \hC670, \h2A99, \h3584, \hD8F2, \hB687, \h0C38, \hD26C, \hFE53, \h516F,
    \hED03, \hA29B, \h1F68, \h2198, \h5125, \hDAD3, \hA34E, \h59D0, \hB01E, \hAA24, \h4275, \h2927,
    \h96BF, \h4DCC, \h64D4, \hCECF, \h7784, \h3D3B, \h85EF, \hBE38, \hDBFC, \h821C, \h2997, \h011F,
    \h3AC7, \hF2EB, \hC8AC, \h71E8, \h1C66, \h1503, \hEE0D, \h9600, \hFD5D, \h65F4, \h0F36, \hE6F7,
    \h61C6, \h9362, \h93AD, \h1061, \h80FD, \hE395, \h7296, \h6096, \hA65C, \h047D, \h5437, \h877E,
    \h4767, \h748A, \hB50C, \hF789, \hEB1F, \hCBAD, \h1974, \h48AE, \h0A24, \hBB5A, \hF84F, \h3859,
    \h2C85, \h5CB2, \hDEEE, \hDFB1, \hCDBE, \h2C45, \h3FD5, \hAF46, \h7198, \h540D, \h83F3, \hD70E,
    \h90A3, \h24FA, \h62C8, \hA7F9, \hB602, \hC312, \h4469, \h4011, \h5739, \hB3E5, \hA552, \h30E6,
    \hFB41, \h0CC2, \h092A, \h8FC1, \h1A7A, \h7C35, \hE811, \hFF36, \h3CDB, \h9BDD, \hCEB0, \h18DE,
    \hDDE0, \hEB2A, \h2F8B, \h6829, \h82F6, \h3B78, \h709D, \hB87B, \h63CD, \h4B8F, \h91A6, \hC88C,
    \h456C, \hAC67, \hB707, \h2F64, \hA457, \hDC90, \h563C, \h5F93, \h082F, \h63B7, \hFA44, \hE0B4,
    \hE914, \h1340, \h1B7F, \h9043, \hCFB5, \hF4A8, \h3DDE, \h77AB, \h2E8E, \h845F, \hDCE5, \h075C,
    \h92A8, \hFC17, \h60C3, \h7F14, \h7393, \h8CE0, \h81F8, \h0FE3, \h5532, \h6B08, \hA759, \hE80B,
    \hB409, \h1BFF, \h4662, \h98FC, \h1871, \hA4D8, \hEA1A, \h27DB, \hF94A, \hD42F, \h0B21, \h572C,
    \hDFEB, \h33C7, \h2D80, \hB0C4, \h3ED0, \h4330, \hCCBB, \hC033, \hA24B, \hB5A6, \h5020, \h36A5,
    \h4370, \hC551, \hB11B, \h4652, \h65D1, \h22B9, \h97BA, \hA1BA, \h84EA, \h524E, \h7681, \hD14D,
    \h2892, \hED69, \hDAF9, \h6E6A, \hC9A9, \h9D9E, \h3BC2, \h1E9D, \hEF08, \h7A76, \h1D63, \hF975,
    \h0E33, \h0A81, \hFC58, \h8982, \hB215, \h72C9, \h407E, \hF1CA, \h532E, \h023E, \hA145, \h813D,
    \h758F, \hE5D6, \h87E4, \h66D5, \h94B4, \h9521, \h66DF, \h1622, \h38CC, \h2A06, \hCAA7, \hA905,
    \hD9F7, \h5AF1, \h2B9C, \hD9F2, \hFF56, \hBD19, \h0D3D, \h3E1A, \h1E6D, \hCDEE, \hEC06, \h4EED,
    \hC38D, \h26C4, \h31E6, \hA5C7, \h22B6, \h5633, \hD0DD, \hD530, \h0417, \hB1DB, \hF67C, \h32D8,
    \hE52C, \hC12C, \h1747, \h422F, \h4954, \h7E0B, \hBB3F, \hFD08, \hA86F, \h0EFC, \h5A04, \h8DFF,
    \h8ECE, \hE914, \h7CA5, \h6A17, \h6FF5, \h99E3, \h9D9E, \h1AE0, \hD3D3, \hE1AB, \h21B8, \h62A8,
    \h32E8, \h915C, \hC083, \h125F, \h1449, \h76B4, \hE622, \hF5B7, \hF572, \h0643, \h0719, \h8540,
    \h590A, \hB964, \hAB61, \h3A67, \hB831, \hC993, \h4A5A, \h4A90, \h9E90, \h2E7B, \h6CFB, \hAD78,
    \h7FAB, \h5E8C, \h8DC0, \hDD8F, \hE330, \hA81A, \h115B, \h2B19, \h020B, \hD8ED, \hF060, \h5BEE,
    \h24AA, \h3F05, \hD6C1, \hBC06, \hC591, \h4FF2, \h37FA, \hCCF1, \h69E9, \hF0D5, \h9B82, \h73D6,
    \h88D2, \h8022, \h7AB9, \h0321, \hAE73, \h67CA, \h5C18, \hE4C9, \h4F48, \h173D, \hBD23, \h943E,
    \hF36E, \h6F75, \h0105, \hEC76, \h1255, \h1F82, \hE03E, \h9C81, \h34F4, \hF86A, \hC69F, \h7B69,
    \hD5CF, \h889D, \h27A4, \h0B9E, \h79B7, \h37BA, \h8BDC, \hB4B9, \h988C, \h474D, \h6AE7, \hC44E,
    \hBE2D, \hA0A5, \h4C46, \h23A6, \h5F16, \hD052, \hAD7D, \h5351>>

T8_1 ==
  <<\h0000, \h0000, \h13A2, \h9877, \h2745, \h30EE, \h34E7, \hA899, \h4E8A, \h61DC, \h5D28, \hF9AB,
    \h69CF, \h5132, \h7A6D, \hC945, \h9D14, \hC3B8, \h8EB6, \h5BCF, \hBA51, \hF356, \hA9F3, \h6B21,
    \hD39E, \hA264, \hC03C, \h3A13, \hF4DB, \h928A, \hE779, \h0AFD, \h3FC5, \hF181, \h2C67, \h69F6,
    \h1880, \hC16F, \h0B22, \h5918, \h714F, \h905D, \h62ED, \h082A, \h560A, \hA0B3, \h45A8, \h38C4,
    \hA2D1, \h3239, \hB173, \hAA4E, \h8594, \h02D7, \h9636, \h9AA0, \hEC5B, \h53E5, \hFFF9, \hCB92,
    \hCB1E, \h630B, \hD8BC, \hFB7C, \h7F8B, \hE302, \h6C29, \h7B75, \h58CE, \hD3EC, \h4B6C, \h4B9B,
    \h3101, \h82DE, \h22A3, \h1AA9, \h1644, \hB230, \h05E6, \h2A47, \hE29F, \h20BA, \hF13D, \hB8CD,
    \hC5DA, \h1054, \hD678, \h8823, \hAC15, \h4166, \hBFB7, \hD911, \h8B50, \h7188, \h98F2, \hE9FF,
    \h404E, \h1283, \h53EC, \h8AF4, \h670B, \h226D, \h74A9, \hBA1A, \h0EC4, \h735F, \h1D66, \hEB28,
    \h2981, \h43B1, \h3A23, \hDBC6, \hDD5A, \hD13B, \hCEF8, \h494C, \hFA1F, \hE1D5, \hE9BD, \h79A2,
    \h93D0, \hB0E7, \h8072, \h2890, \hB495, \h8009, \hA737, \h187E, \hFF17, \hC604, \hECB5, \h5E73,
    \hD852, \hF6EA, \hCBF0, \h6E9D, \hB19D, \hA7D8, \hA23F, \h3FAF, \h96D8, \h9736, \h857A, \h0F41,
    \h6203, \h05BC, \h71A1, \h9DCB, \h4546, \h3552, \h56E4, \hAD25, \h2C89, \h6460, \h3F2B, \hFC17,
    \h0BCC, \h548E, \h186E, \hCCF9, \hC0D2, \h3785, \hD370, \hAFF2, \hE797, \h076B, \hF435, \h9F1C,
    \h8E58, \h5659, \h9DFA, \hCE2E, \hA91D, \h66B7, \hBABF, \hFEC0, \h5DC6, \hF43D, \h4E64, \h6C4A,
    \h7A83, \hC4D3, \h6921, \h5CA4, \h134C, \h95E1, \h00EE, \h0D96, \h3409, \hA50F, \h27AB, \h3D78,
    \h809C, \h2506, \h933E, \hBD71, \hA7D9, \h15E8, \hB47B, \h8D9F, \hCE16, \h44DA, \hDDB4, \hDCAD,
    \hE953, \h7434, \hFAF1, \hEC43, \h1D88, \hE6BE, \h0E2A, \h7EC9, \h3ACD, \hD650, \h296F, \h4E27,
    \h5302, \h8762, \h40A0, \h1F15, \h7447, \hB78C, \h67E5, \h2FFB, \hBF59, \hD487, \hACFB, \h4CF0,
    \h981C, \hE469, \h8BBE, \h7C1E, \hF1D3, \hB55B, \hE271, \h2D2C, \hD696, \h85B5, \hC534, \h1DC2,
    \h224D, \h173F, \h31EF, \h8F48, \h0508, \h27D1, \h16AA, \hBFA6, \h6CC7, \h76E3, \h7F65, \hEE94,
    \h4B82, \h460D, \h5820, \hDE7A, \hFBC3, \hFAF9, \hE861, \h628E, \hDC86, \hCA17, \hCF24, \h5260,
    \hB549, \h9B25, \hA6EB, \h0352, \h920C, \hABCB, \h81AE, \h33BC, \h66D7, \h3941, \h7575, \hA136,
    \h4192, \h09AF, \h5230, \h91D8, \h285D, \h589D, \h3BFF, \hC0EA, \h0F18, \h6873, \h1CBA, \hF004,
    \hC406, \h0B78, \hD7A4, \h930F, \hE343, \h3B96, \hF0E1, \hA3E1, \h8A8C, \h6AA4, \h992E, \hF2D3,
    \hADC9, \h5A4A, \hBE6B, \hC23D, \h5912, \hC8C0, \h4AB0, \h50B7, \h7E57, \hF82E, \h6DF5, \h6059,
    \h1798, \hA91C, \h043A, \h316B, \h30DD, \h99F2, \h237F, \h0185, \h8448, \h19FB, \h97EA, \h818C,
    \hA30D, \h2915, \hB0AF, \hB162, \hCAC2, \h7827, \hD960, \hE050, \hED87, \h48C9, \hFE25, \hD0BE,
    \h195C, \hDA43, \h0AFE, \h4234, \h3E19, \hEAAD, \h2DBB, \h72DA, \h57D6, \hBB9F, \h4474, \h23E8,
    \h7093, \h8B71, \h6331, \h1306, \hBB8D, \hE87A, \hA82F, \h700D, \h9CC8, \hD894, \h8F6A, \h40E3,
    \hF507, \h89A6, \hE6A5, \h11D1, \hD242, \hB948, \hC1E0, \h213F, \h2699, \h2BC2, \h353B, \hB3B5,
    \h01DC, \h1B2C, \h127E, \h835B, \h6813, \h4A1E, \h7BB1, \hD269, \h4F56, \h7AF0, \h5CF4, \hE287,
    \h04D4, \h3CFD, \h1776, \hA48A, \h2391, \h0C13, \h3033, \h9464, \h4A5E, \h5D21, \h59FC, \hC556,
    \h6D1B, \h6DCF, \h7EB9, \hF5B8, \h99C0, \hFF45, \h8A62, \h6732, \hBE85, \hCFAB, \hAD27, \h57DC,
    \hD74A, \h9E99, \hC4E8, \h06EE, \hF00F, \hAE77, \hE3AD, \h3600, \h3B11, \hCD7C, \h28B3, \h550B,
    \h1C54, \hFD92, \h0FF6, \h65E5, \h759B, \hACA0, \h6639, \h34D7, \h52DE, \h9C4E, \h417C, \h0439,
    \hA605, \h0EC4, \hB5A7, \h96B3, \h8140, \h3E2A, \h92E2, \hA65D, \hE88F, \h6F18, \hFB2D, \hF76F,
    \hCFCA, \h5FF6, \hDC68, \hC781, \h7B5F, \hDFFF, \h68FD, \h4788, \h5C1A, \hEF11, \h4FB8, \h7766,
    \h35D5, \hBE23, \h2677, \h2654, \h1290, \h8ECD, \h0132, \h16BA, \hE64B, \h1C47, \hF5E9, \h8430,
    \hC10E, \h2CA9, \hD2AC, \hB4DE, \hA8C1, \h7D9B, \hBB63, \hE5EC, \h8F84, \h4D75, \h9C26, \hD502,
    \h449A, \h2E7E, \h5738, \hB609, \h63DF, \h1E90, \h707D, \h86E7, \h0A10, \h4FA2, \h19B2, \hD7D5,
    \h2D55, \h7F4C, \h3EF7, \hE73B, \hD98E, \hEDC6, \hCA2C, \h75B1, \hFECB, \hDD28, \hED69, \h455F,
    \h9704, \h8C1A, \h84A6, \h146D, \hB041, \hBCF4, \hA3E3, \h2483>>

T8_2 ==
  <<\h0000, \h0000, \hA541, \h927E, \h4F6F, \h520D, \hEA2E, \hC073, \h9EDE, \hA41A, \h3B9F, \h3664,
    \hD1B1, \hF617, \h74F0, \h6469, \h3851, \h3EC5, \h9D10, \hACBB, \h773E, \h6CC8, \hD27F, \hFEB6,
    \hA68F, \h9ADF, \h03CE, \h08A1, \hE9E0, \hC8D2, \h4CA1, \h5AAC, \h70A2, \h7D8A, \hD5E3, \hEFF4,
    \h3FCD, \h2F87, \h9A8C, \hBDF9, \hEE7C, \hD990, \h4B3D, \h4BEE, \hA113, \h8B9D, \h0452, \h19E3,
    \h48F3, \h434F, \hEDB2, \hD131, \h079C, \h1142, \hA2DD, \h833C, \hD62D, \hE755, \h736C, \h752B,
    \h9942, \hB558, \h3C03, \h2726, \hE144, \hFB14, \h4405, \h696A, \hAE2B, \hA919, \h0B6A, \h3B67,
    \h7F9A, \h5F0E, \hDADB, \hCD70, \h30F5, \h0D03, \h95B4, \h9F7D, \hD915, \hC5D1, \h7C54, \h57AF,
    \h967A, \h97DC, \h333B, \h05A2, \h47CB, \h61CB, \hE28A, \hF3B5, \h08A4, \h33C6, \hADE5, \hA1B8,
    \h91E6, \h869E, \h34A7, \h14E0, \hDE89, \hD493, \h7BC8, \h46ED, \h0F38, \h2284, \hAA79, \hB0FA,
    \h4057, \h7089, \hE516, \hE2F7, \hA9B7, \hB85B, \h0CF6, \h2A25, \hE6D8, \hEA56, \h4399, \h7828,
    \h3769, \h1C41, \h9228, \h8E3F, \h7806, \h4E4C, \hDD47, \hDC32, \hC765, \h80D9, \h6224, \h12A7,
    \h880A, \hD2D4, \h2D4B, \h40AA, \h59BB, \h24C3, \hFCFA, \hB6BD, \h16D4, \h76CE, \hB395, \hE4B0,
    \hFF34, \hBE1C, \h5A75, \h2C62, \hB05B, \hEC11, \h151A, \h7E6F, \h61EA, \h1A06, \hC4AB, \h8878,
    \h2E85, \h480B, \h8BC4, \hDA75, \hB7C7, \hFD53, \h1286, \h6F2D, \hF8A8, \hAF5E, \h5DE9, \h3D20,
    \h2919, \h5949, \h8C58, \hCB37, \h6676, \h0B44, \hC337, \h993A, \h8F96, \hC396, \h2AD7, \h51E8,
    \hC0F9, \h919B, \h65B8, \h03E5, \h1148, \h678C, \hB409, \hF5F2, \h5E27, \h3581, \hFB66, \hA7FF,
    \h2621, \h7BCD, \h8360, \hE9B3, \h694E, \h29C0, \hCC0F, \hBBBE, \hB8FF, \hDFD7, \h1DBE, \h4DA9,
    \hF790, \h8DDA, \h52D1, \h1FA4, \h1E70, \h4508, \hBB31, \hD776, \h511F, \h1705, \hF45E, \h857B,
    \h80AE, \hE112, \h25EF, \h736C, \hCFC1, \hB31F, \h6A80, \h2161, \h5683, \h0647, \hF3C2, \h9439,
    \h19EC, \h544A, \hBCAD, \hC634, \hC85D, \hA25D, \h6D1C, \h3023, \h8732, \hF050, \h2273, \h622E,
    \h6ED2, \h3882, \hCB93, \hAAFC, \h21BD, \h6A8F, \h84FC, \hF8F1, \hF00C, \h9C98, \h554D, \h0EE6,
    \hBF63, \hCE95, \h1A22, \h5CEB, \h8B27, \h7743, \h2E66, \hE53D, \hC448, \h254E, \h6109, \hB730,
    \h15F9, \hD359, \hB0B8, \h4127, \h5A96, \h8154, \hFFD7, \h132A, \hB376, \h4986, \h1637, \hDBF8,
    \hFC19, \h1B8B, \h5958, \h89F5, \h2DA8, \hED9C, \h88E9, \h7FE2, \h62C7, \hBF91, \hC786, \h2DEF,
    \hFB85, \h0AC9, \h5EC4, \h98B7, \hB4EA, \h58C4, \h11AB, \hCABA, \h655B, \hAED3, \hC01A, \h3CAD,
    \h2A34, \hFCDE, \h8F75, \h6EA0, \hC3D4, \h340C, \h6695, \hA672, \h8CBB, \h6601, \h29FA, \hF47F,
    \h5D0A, \h9016, \hF84B, \h0268, \h1265, \hC21B, \hB724, \h5065, \h6A63, \h8C57, \hCF22, \h1E29,
    \h250C, \hDE5A, \h804D, \h4C24, \hF4BD, \h284D, \h51FC, \hBA33, \hBBD2, \h7A40, \h1E93, \hE83E,
    \h5232, \hB292, \hF773, \h20EC, \h1D5D, \hE09F, \hB81C, \h72E1, \hCCEC, \h1688, \h69AD, \h84F6,
    \h8383, \h4485, \h26C2, \hD6FB, \h1AC1, \hF1DD, \hBF80, \h63A3, \h55AE, \hA3D0, \hF0EF, \h31AE,
    \h841F, \h55C7, \h215E, \hC7B9, \hCB70, \h07CA, \h6E31, \h95B4, \h2290, \hCF18, \h87D1, \h5D66,
    \h6DFF, \h9D15, \hC8BE, \h0F6B, \hBC4E, \h6B02, \h190F, \hF97C, \hF321, \h390F, \h5660, \hAB71,
    \h4C42, \hF79A, \hE903, \h65E4, \h032D, \hA597, \hA66C, \h37E9, \hD29C, \h5380, \h77DD, \hC1FE,
    \h9DF3, \h018D, \h38B2, \h93F3, \h7413, \hC95F, \hD152, \h5B21, \h3B7C, \h9B52, \h9E3D, \h092C,
    \hEACD, \h6D45, \h4F8C, \hFF3B, \hA5A2, \h3F48, \h00E3, \hAD36, \h3CE0, \h8A10, \h99A1, \h186E,
    \h738F, \hD81D, \hD6CE, \h4A63, \hA23E, \h2E0A, \h077F, \hBC74, \hED51, \h7C07, \h4810, \hEE79,
    \h04B1, \hB4D5, \hA1F0, \h26AB, \h4BDE, \hE6D8, \hEE9F, \h74A6, \h9A6F, \h10CF, \h3F2E, \h82B1,
    \hD500, \h42C2, \h7041, \hD0BC, \hAD06, \h0C8E, \h0847, \h9EF0, \hE269, \h5E83, \h4728, \hCCFD,
    \h33D8, \hA894, \h9699, \h3AEA, \h7CB7, \hFA99, \hD9F6, \h68E7, \h9557, \h324B, \h3016, \hA035,
    \hDA38, \h6046, \h7F79, \hF238, \h0B89, \h9651, \hAEC8, \h042F, \h44E6, \hC45C, \hE1A7, \h5622,
    \hDDA4, \h7104, \h78E5, \hE37A, \h92CB, \h2309, \h378A, \hB177, \h437A, \hD51E, \hE63B, \h4760,
    \h0C15, \h8713, \hA954, \h156D, \hE5F5, \h4FC1, \h40B4, \hDDBF, \hAA9A, \h1DCC, \h0FDB, \h8FB2,
    \h7B2B, \hEBDB, \hDE6A, \h79A5, \h3444, \hB9D6, \h9105, \h2BA8>>

T8_3 ==
  <<\h0000, \h0000, \hDD45, \hAAB8, \hBF67, \h2381, \h6222, \h8939, \h7B22, \h31F3, \hA667, \h9B4B,
    \hC445, \h1272, \h1900, \hB8CA, \hF644, \h63E6, \h2B01, \hC95E, \h4923, \h4067, \h9466, \hEADF,
    \h8D66, \h5215, \h5023, \hF8AD, \h3201, \h7194, \hEF44, \hDB2C, \hE964, \hB13D, \h3421, \h1B85,
    \h5603, \h92BC, \h8B46, \h3804, \h9246, \h80CE, \h4F03, \h2A76, \h2D21, \hA34F, \hF064, \h09F7,
    \h1F20, \hD2DB, \hC265, \h7863, \hA047, \hF15A, \h7D02, \h5BE2, \h6402, \hE328, \hB947, \h4990,
    \hDB65, \hC0A9, \h0620, \h6A11, \hD725, \h148B, \h0A60, \hBE33, \h6842, \h370A, \hB507, \h9DB2,
    \hAC07, \h2578, \h7142, \h8FC0, \h1360, \h06F9, \hCE25, \hAC41, \h2161, \h776D, \hFC24, \hDDD5,
    \h9E06, \h54EC, \h4343, \hFE54, \h5A43, \h469E, \h8706, \hEC26, \hE524, \h651F, \h3861, \hCFA7,
    \h3E41, \hA5B6, \hE304, \h0F0E, \h8126, \h8637, \h5C63, \h2C8F, \h4563, \h9445, \h9826, \h3EFD,
    \hFA04, \hB7C4, \h2741, \h1D7C, \hC805, \hC650, \h1540, \h6CE8, \h7762, \hE5D1, \hAA27, \h4F69,
    \hB327, \hF7A3, \h6E62, \h5D1B, \h0C40, \hD422, \hD105, \h7E9A, \hABA6, \h5FE7, \h76E3, \hF55F,
    \h14C1, \h7C66, \hC984, \hD6DE, \hD084, \h6E14, \h0DC1, \hC4AC, \h6FE3, \h4D95, \hB2A6, \hE72D,
    \h5DE2, \h3C01, \h80A7, \h96B9, \hE285, \h1F80, \h3FC0, \hB538, \h26C0, \h0DF2, \hFB85, \hA74A,
    \h99A7, \h2E73, \h44E2, \h84CB, \h42C2, \hEEDA, \h9F87, \h4462, \hFDA5, \hCD5B, \h20E0, \h67E3,
    \h39E0, \hDF29, \hE4A5, \h7591, \h8687, \hFCA8, \h5BC2, \h5610, \hB486, \h8D3C, \h69C3, \h2784,
    \h0BE1, \hAEBD, \hD6A4, \h0405, \hCFA4, \hBCCF, \h12E1, \h1677, \h70C3, \h9F4E, \hAD86, \h35F6,
    \h7C83, \h4B6C, \hA1C6, \hE1D4, \hC3E4, \h68ED, \h1EA1, \hC255, \h07A1, \h7A9F, \hDAE4, \hD027,
    \hB8C6, \h591E, \h6583, \hF3A6, \h8AC7, \h288A, \h5782, \h8232, \h35A0, \h0B0B, \hE8E5, \hA1B3,
    \hF1E5, \h1979, \h2CA0, \hB3C1, \h4E82, \h3AF8, \h93C7, \h9040, \h95E7, \hFA51, \h48A2, \h50E9,
    \h2A80, \hD9D0, \hF7C5, \h7368, \hEEC5, \hCBA2, \h3380, \h611A, \h51A2, \hE823, \h8CE7, \h429B,
    \h63A3, \h99B7, \hBEE6, \h330F, \hDCC4, \hBA36, \h0181, \h108E, \h1881, \hA844, \hC5C4, \h02FC,
    \hA7E6, \h8BC5, \h7AA3, \h217D, \h52A0, \hC93F, \h8FE5, \h6387, \hEDC7, \hEABE, \h3082, \h4006,
    \h2982, \hF8CC, \hF4C7, \h5274, \h96E5, \hDB4D, \h4BA0, \h71F5, \hA4E4, \hAAD9, \h79A1, \h0061,
    \h1B83, \h8958, \hC6C6, \h23E0, \hDFC6, \h9B2A, \h0283, \h3192, \h60A1, \hB8AB, \hBDE4, \h1213,
    \hBBC4, \h7802, \h6681, \hD2BA, \h04A3, \h5B83, \hD9E6, \hF13B, \hC0E6, \h49F1, \h1DA3, \hE349,
    \h7F81, \h6A70, \hA2C4, \hC0C8, \h4D80, \h1BE4, \h90C5, \hB15C, \hF2E7, \h3865, \h2FA2, \h92DD,
    \h36A2, \h2A17, \hEBE7, \h80AF, \h89C5, \h0996, \h5480, \hA32E, \h8585, \hDDB4, \h58C0, \h770C,
    \h3AE2, \hFE35, \hE7A7, \h548D, \hFEA7, \hEC47, \h23E2, \h46FF, \h41C0, \hCFC6, \h9C85, \h657E,
    \h73C1, \hBE52, \hAE84, \h14EA, \hCCA6, \h9DD3, \h11E3, \h376B, \h08E3, \h8FA1, \hD5A6, \h2519,
    \hB784, \hAC20, \h6AC1, \h0698, \h6CE1, \h6C89, \hB1A4, \hC631, \hD386, \h4F08, \h0EC3, \hE5B0,
    \h17C3, \h5D7A, \hCA86, \hF7C2, \hA8A4, \h7EFB, \h75E1, \hD443, \h9AA5, \h0F6F, \h47E0, \hA5D7,
    \h25C2, \h2CEE, \hF887, \h8656, \hE187, \h3E9C, \h3CC2, \h9424, \h5EE0, \h1D1D, \h83A5, \hB7A5,
    \hF906, \h96D8, \h2443, \h3C60, \h4661, \hB559, \h9B24, \h1FE1, \h8224, \hA72B, \h5F61, \h0D93,
    \h3D43, \h84AA, \hE006, \h2E12, \h0F42, \hF53E, \hD207, \h5F86, \hB025, \hD6BF, \h6D60, \h7C07,
    \h7460, \hC4CD, \hA925, \h6E75, \hCB07, \hE74C, \h1642, \h4DF4, \h1062, \h27E5, \hCD27, \h8D5D,
    \hAF05, \h0464, \h7240, \hAEDC, \h6B40, \h1616, \hB605, \hBCAE, \hD427, \h3597, \h0962, \h9F2F,
    \hE626, \h4403, \h3B63, \hEEBB, \h5941, \h6782, \h8404, \hCD3A, \h9D04, \h75F0, \h4041, \hDF48,
    \h2263, \h5671, \hFF26, \hFCC9, \h2E23, \h8253, \hF366, \h28EB, \h9144, \hA1D2, \h4C01, \h0B6A,
    \h5501, \hB3A0, \h8844, \h1918, \hEA66, \h9021, \h3723, \h3A99, \hD867, \hE1B5, \h0522, \h4B0D,
    \h6700, \hC234, \hBA45, \h688C, \hA345, \hD046, \h7E00, \h7AFE, \h1C22, \hF3C7, \hC167, \h597F,
    \hC747, \h336E, \h1A02, \h99D6, \h7820, \h10EF, \hA565, \hBA57, \hBC65, \h029D, \h6120, \hA825,
    \h0302, \h211C, \hDE47, \h8BA4, \h3103, \h5088, \hEC46, \hFA30, \h8E64, \h7309, \h5321, \hD9B1,
    \h4A21, \h617B, \h9764, \hCBC3, \hF546, \h42FA, \h2803, \hE842>>

T8_4 ==
  <<\h0000, \h0000, \h3811, \h6FAC, \h7022, \hDF58, \h4833, \hB0F4, \hE045, \hBEB0, \hD854, \hD11C,
    \h9067, \h61E8, \hA876, \h0E44, \hC567, \h0B91, \hFD76, \h643D, \hB545, \hD4C9, \h8D54, \hBB65,
    \h2522, \hB521, \h1D33, \hDA8D, \h5500, \h6A79, \h6D11, \h05D5, \h8F22, \h61D3, \hB733, \h0E7F,
    \hFF00, \hBE8B, \hC711, \hD127, \h6F67, \hDF63, \h5776, \hB0CF, \h1F45, \h003B, \h2754, \h6F97,
    \h4A45, \h6A42, \h7254, \h05EE, \h3A67, \hB51A, \h0276, \hDAB6, \hAA00, \hD4F2, \h9211, \hBB5E,
    \hDA22, \h0BAA, \hE233, \h6406, \h1BA8, \hB557, \h23B9, \hDAFB, \h6B8A, \h6A0F, \h539B, \h05A3,
    \hFBED, \h0BE7, \hC3FC, \h644B, \h8BCF, \hD4BF, \hB3DE, \hBB13, \hDECF, \hBEC6, \hE6DE, \hD16A,
    \hAEED, \h619E, \h96FC, \h0E32, \h3E8A, \h0076, \h069B, \h6FDA, \h4EA8, \hDF2E, \h76B9, \hB082,
    \h948A, \hD484, \hAC9B, \hBB28, \hE4A8, \h0BDC, \hDCB9, \h6470, \h74CF, \h6A34, \h4CDE, \h0598,
    \h04ED, \hB56C, \h3CFC, \hDAC0, \h51ED, \hDF15, \h69FC, \hB0B9, \h21CF, \h004D, \h19DE, \h6FE1,
    \hB1A8, \h61A5, \h89B9, \h0E09, \hC18A, \hBEFD, \hF99B, \hD151, \h3751, \h6AAE, \h0F40, \h0502,
    \h4773, \hB5F6, \h7F62, \hDA5A, \hD714, \hD41E, \hEF05, \hBBB2, \hA736, \h0B46, \h9F27, \h64EA,
    \hF236, \h613F, \hCA27, \h0E93, \h8214, \hBE67, \hBA05, \hD1CB, \h1273, \hDF8F, \h2A62, \hB023,
    \h6251, \h00D7, \h5A40, \h6F7B, \hB873, \h0B7D, \h8062, \h64D1, \hC851, \hD425, \hF040, \hBB89,
    \h5836, \hB5CD, \h6027, \hDA61, \h2814, \h6A95, \h1005, \h0539, \h7D14, \h00EC, \h4505, \h6F40,
    \h0D36, \hDFB4, \h3527, \hB018, \h9D51, \hBE5C, \hA540, \hD1F0, \hED73, \h6104, \hD562, \h0EA8,
    \h2CF9, \hDFF9, \h14E8, \hB055, \h5CDB, \h00A1, \h64CA, \h6F0D, \hCCBC, \h6149, \hF4AD, \h0EE5,
    \hBC9E, \hBE11, \h848F, \hD1BD, \hE99E, \hD468, \hD18F, \hBBC4, \h99BC, \h0B30, \hA1AD, \h649C,
    \h09DB, \h6AD8, \h31CA, \h0574, \h79F9, \hB580, \h41E8, \hDA2C, \hA3DB, \hBE2A, \h9BCA, \hD186,
    \hD3F9, \h6172, \hEBE8, \h0EDE, \h439E, \h009A, \h7B8F, \h6F36, \h33BC, \hDFC2, \h0BAD, \hB06E,
    \h66BC, \hB5BB, \h5EAD, \hDA17, \h169E, \h6AE3, \h2E8F, \h054F, \h86F9, \h0B0B, \hBEE8, \h64A7,
    \hF6DB, \hD453, \hCECA, \hBBFF, \h6EA2, \hD55C, \h56B3, \hBAF0, \h1E80, \h0A04, \h2691, \h65A8,
    \h8EE7, \h6BEC, \hB6F6, \h0440, \hFEC5, \hB4B4, \hC6D4, \hDB18, \hABC5, \hDECD, \h93D4, \hB161,
    \hDBE7, \h0195, \hE3F6, \h6E39, \h4B80, \h607D, \h7391, \h0FD1, \h3BA2, \hBF25, \h03B3, \hD089,
    \hE180, \hB48F, \hD991, \hDB23, \h91A2, \h6BD7, \hA9B3, \h047B, \h01C5, \h0A3F, \h39D4, \h6593,
    \h71E7, \hD567, \h49F6, \hBACB, \h24E7, \hBF1E, \h1CF6, \hD0B2, \h54C5, \h6046, \h6CD4, \h0FEA,
    \hC4A2, \h01AE, \hFCB3, \h6E02, \hB480, \hDEF6, \h8C91, \hB15A, \h750A, \h600B, \h4D1B, \h0FA7,
    \h0528, \hBF53, \h3D39, \hD0FF, \h954F, \hDEBB, \hAD5E, \hB117, \hE56D, \h01E3, \hDD7C, \h6E4F,
    \hB06D, \h6B9A, \h887C, \h0436, \hC04F, \hB4C2, \hF85E, \hDB6E, \h5028, \hD52A, \h6839, \hBA86,
    \h200A, \h0A72, \h181B, \h65DE, \hFA28, \h01D8, \hC239, \h6E74, \h8A0A, \hDE80, \hB21B, \hB12C,
    \h1A6D, \hBF68, \h227C, \hD0C4, \h6A4F, \h6030, \h525E, \h0F9C, \h3F4F, \h0A49, \h075E, \h65E5,
    \h4F6D, \hD511, \h777C, \hBABD, \hDF0A, \hB4F9, \hE71B, \hDB55, \hAF28, \h6BA1, \h9739, \h040D,
    \h59F3, \hBFF2, \h61E2, \hD05E, \h29D1, \h60AA, \h11C0, \h0F06, \hB9B6, \h0142, \h81A7, \h6EEE,
    \hC994, \hDE1A, \hF185, \hB1B6, \h9C94, \hB463, \hA485, \hDBCF, \hECB6, \h6B3B, \hD4A7, \h0497,
    \h7CD1, \h0AD3, \h44C0, \h657F, \h0CF3, \hD58B, \h34E2, \hBA27, \hD6D1, \hDE21, \hEEC0, \hB18D,
    \hA6F3, \h0179, \h9EE2, \h6ED5, \h3694, \h6091, \h0E85, \h0F3D, \h46B6, \hBFC9, \h7EA7, \hD065,
    \h13B6, \hD5B0, \h2BA7, \hBA1C, \h6394, \h0AE8, \h5B85, \h6544, \hF3F3, \h6B00, \hCBE2, \h04AC,
    \h83D1, \hB458, \hBBC0, \hDBF4, \h425B, \h0AA5, \h7A4A, \h6509, \h3279, \hD5FD, \h0A68, \hBA51,
    \hA21E, \hB415, \h9A0F, \hDBB9, \hD23C, \h6B4D, \hEA2D, \h04E1, \h873C, \h0134, \hBF2D, \h6E98,
    \hF71E, \hDE6C, \hCF0F, \hB1C0, \h6779, \hBF84, \h5F68, \hD028, \h175B, \h60DC, \h2F4A, \h0F70,
    \hCD79, \h6B76, \hF568, \h04DA, \hBD5B, \hB42E, \h854A, \hDB82, \h2D3C, \hD5C6, \h152D, \hBA6A,
    \h5D1E, \h0A9E, \h650F, \h6532, \h081E, \h60E7, \h300F, \h0F4B, \h783C, \hBFBF, \h402D, \hD013,
    \hE85B, \hDE57, \hD04A, \hB1FB, \h9879, \h010F, \hA068, \h6EA3>>

T8_5 ==
  <<\h0000, \h0000, \hEF30, \h6B19, \hDB8C, \hA0C3, \h34BC, \hCBDA, \hB2F5, \h3777, \h5DC5, \h5C6E,
    \h6979, \h97B4, \h8649, \hFCAD, \h6006, \h181F, \h8F36, \h7306, \hBB8A, \hB8DC, \h54BA, \hD3C5,
    \hD2F3, \h2F68, \h3DC3, \h4471, \h097F, \h8FAB, \hE64F, \hE4B2, \hC00C, \h303E, \h2F3C, \h5B27,
    \h1B80, \h90FD, \hF4B0, \hFBE4, \h72F9, \h0749, \h9DC9, \h6C50, \hA975, \hA78A, \h4645, \hCC93,
    \hA00A, \h2821, \h4F3A, \h4338, \h7B86, \h88E2, \h94B6, \hE3FB, \h12FF, \h1F56, \hFDCF, \h744F,
    \hC973, \hBF95, \h2643, \hD48C, \h85F4, \h168D, \h6AC4, \h7D94, \h5E78, \hB64E, \hB148, \hDD57,
    \h3701, \h21FA, \hD831, \h4AE3, \hEC8D, \h8139, \h03BD, \hEA20, \hE5F2, \h0E92, \h0AC2, \h658B,
    \h3E7E, \hAE51, \hD14E, \hC548, \h5707, \h39E5, \hB837, \h52FC, \h8C8B, \h9926, \h63BB, \hF23F,
    \h45F8, \h26B3, \hAAC8, \h4DAA, \h9E74, \h8670, \h7144, \hED69, \hF70D, \h11C4, \h183D, \h7ADD,
    \h2C81, \hB107, \hC3B1, \hDA1E, \h25FE, \h3EAC, \hCACE, \h55B5, \hFE72, \h9E6F, \h1142, \hF576,
    \h970B, \h09DB, \h783B, \h62C2, \h4C87, \hA918, \hA3B7, \hC201, \h0E04, \h5BEB, \hE134, \h30F2,
    \hD588, \hFB28, \h3AB8, \h9031, \hBCF1, \h6C9C, \h53C1, \h0785, \h677D, \hCC5F, \h884D, \hA746,
    \h6E02, \h43F4, \h8132, \h28ED, \hB58E, \hE337, \h5ABE, \h882E, \hDCF7, \h7483, \h33C7, \h1F9A,
    \h077B, \hD440, \hE84B, \hBF59, \hCE08, \h6BD5, \h2138, \h00CC, \h1584, \hCB16, \hFAB4, \hA00F,
    \h7CFD, \h5CA2, \h93CD, \h37BB, \hA771, \hFC61, \h4841, \h9778, \hAE0E, \h73CA, \h413E, \h18D3,
    \h7582, \hD309, \h9AB2, \hB810, \h1CFB, \h44BD, \hF3CB, \h2FA4, \hC777, \hE47E, \h2847, \h8F67,
    \h8BF0, \h4D66, \h64C0, \h267F, \h507C, \hEDA5, \hBF4C, \h86BC, \h3905, \h7A11, \hD635, \h1108,
    \hE289, \hDAD2, \h0DB9, \hB1CB, \hEBF6, \h5579, \h04C6, \h3E60, \h307A, \hF5BA, \hDF4A, \h9EA3,
    \h5903, \h620E, \hB633, \h0917, \h828F, \hC2CD, \h6DBF, \hA9D4, \h4BFC, \h7D58, \hA4CC, \h1641,
    \h9070, \hDD9B, \h7F40, \hB682, \hF909, \h4A2F, \h1639, \h2136, \h2285, \hEAEC, \hCDB5, \h81F5,
    \h2BFA, \h6547, \hC4CA, \h0E5E, \hF076, \hC584, \h1F46, \hAE9D, \h990F, \h5230, \h763F, \h3929,
    \h4283, \hF2F3, \hADB3, \h99EA, \h1C08, \hB7D6, \hF338, \hDCCF, \hC784, \h1715, \h28B4, \h7C0C,
    \hAEFD, \h80A1, \h41CD, \hEBB8, \h7571, \h2062, \h9A41, \h4B7B, \h7C0E, \hAFC9, \h933E, \hC4D0,
    \hA782, \h0F0A, \h48B2, \h6413, \hCEFB, \h98BE, \h21CB, \hF3A7, \h1577, \h387D, \hFA47, \h5364,
    \hDC04, \h87E8, \h3334, \hECF1, \h0788, \h272B, \hE8B8, \h4C32, \h6EF1, \hB09F, \h81C1, \hDB86,
    \hB57D, \h105C, \h5A4D, \h7B45, \hBC02, \h9FF7, \h5332, \hF4EE, \h678E, \h3F34, \h88BE, \h542D,
    \h0EF7, \hA880, \hE1C7, \hC399, \hD57B, \h0843, \h3A4B, \h635A, \h99FC, \hA15B, \h76CC, \hCA42,
    \h4270, \h0198, \hAD40, \h6A81, \h2B09, \h962C, \hC439, \hFD35, \hF085, \h36EF, \h1FB5, \h5DF6,
    \hF9FA, \hB944, \h16CA, \hD25D, \h2276, \h1987, \hCD46, \h729E, \h4B0F, \h8E33, \hA43F, \hE52A,
    \h9083, \h2EF0, \h7FB3, \h45E9, \h59F0, \h9165, \hB6C0, \hFA7C, \h827C, \h31A6, \h6D4C, \h5ABF,
    \hEB05, \hA612, \h0435, \hCD0B, \h3089, \h06D1, \hDFB9, \h6DC8, \h39F6, \h897A, \hD6C6, \hE263,
    \hE27A, \h29B9, \h0D4A, \h42A0, \h8B03, \hBE0D, \h6433, \hD514, \h508F, \h1ECE, \hBFBF, \h75D7,
    \h120C, \hEC3D, \hFD3C, \h8724, \hC980, \h4CFE, \h26B0, \h27E7, \hA0F9, \hDB4A, \h4FC9, \hB053,
    \h7B75, \h7B89, \h9445, \h1090, \h720A, \hF422, \h9D3A, \h9F3B, \hA986, \h54E1, \h46B6, \h3FF8,
    \hC0FF, \hC355, \h2FCF, \hA84C, \h1B73, \h6396, \hF443, \h088F, \hD200, \hDC03, \h3D30, \hB71A,
    \h098C, \h7CC0, \hE6BC, \h17D9, \h60F5, \hEB74, \h8FC5, \h806D, \hBB79, \h4BB7, \h5449, \h20AE,
    \hB206, \hC41C, \h5D36, \hAF05, \h698A, \h64DF, \h86BA, \h0FC6, \h00F3, \hF36B, \hEFC3, \h9872,
    \hDB7F, \h53A8, \h344F, \h38B1, \h97F8, \hFAB0, \h78C8, \h91A9, \h4C74, \h5A73, \hA344, \h316A,
    \h250D, \hCDC7, \hCA3D, \hA6DE, \hFE81, \h6D04, \h11B1, \h061D, \hF7FE, \hE2AF, \h18CE, \h89B6,
    \h2C72, \h426C, \hC342, \h2975, \h450B, \hD5D8, \hAA3B, \hBEC1, \h9E87, \h751B, \h71B7, \h1E02,
    \h57F4, \hCA8E, \hB8C4, \hA197, \h8C78, \h6A4D, \h6348, \h0154, \hE501, \hFDF9, \h0A31, \h96E0,
    \h3E8D, \h5D3A, \hD1BD, \h3623, \h37F2, \hD291, \hD8C2, \hB988, \hEC7E, \h7252, \h034E, \h194B,
    \h8507, \hE5E6, \h6A37, \h8EFF, \h5E8B, \h4525, \hB1BB, \h2E3C>>

T8_6 ==
  <<\h0000, \h0000, \h6803, \h2CC8, \hD006, \h5990, \hB805, \h7558, \hA5E0, \hC5D1, \hCDE3, \hE919,
    \h75E6, \h9C41, \h1DE5, \hB089, \h4E2D, \hFD53, \h262E, \hD19B, \h9E2B, \hA4C3, \hF628, \h880B,
    \hEBCD, \h3882, \h83CE, \h144A, \h3BCB, \h6112, \h53C8, \h4DDA, \h9C5B, \hFAA6, \hF458, \hD66E,
    \h4C5D, \hA336, \h245E, \h8FFE, \h39BB, \h3F77, \h51B8, \h13BF, \hE9BD, \h66E7, \h81BE, \h4A2F,
    \hD276, \h07F5, \hBA75, \h2B3D, \h0270, \h5E65, \h6A73, \h72AD, \h7796, \hC224, \h1F95, \hEEEC,
    \hA790, \h9BB4, \hCF93, \hB77C, \h3D5B, \h83BD, \h5558, \hAF75, \hED5D, \hDA2D, \h855E, \hF6E5,
    \h98BB, \h466C, \hF0B8, \h6AA4, \h48BD, \h1FFC, \h20BE, \h3334, \h7376, \h7EEE, \h1B75, \h5226,
    \hA370, \h277E, \hCB73, \h0BB6, \hD696, \hBB3F, \hBE95, \h97F7, \h0690, \hE2AF, \h6E93, \hCE67,
    \hA100, \h791B, \hC903, \h55D3, \h7106, \h208B, \h1905, \h0C43, \h04E0, \hBCCA, \h6CE3, \h9002,
    \hD4E6, \hE55A, \hBCE5, \hC992, \hEF2D, \h8448, \h872E, \hA880, \h3F2B, \hDDD8, \h5728, \hF110,
    \h4ACD, \h4199, \h22CE, \h6D51, \h9ACB, \h1809, \hF2C8, \h34C1, \h7AB7, \h077A, \h12B4, \h2BB2,
    \hAAB1, \h5EEA, \hC2B2, \h7222, \hDF57, \hC2AB, \hB754, \hEE63, \h0F51, \h9B3B, \h6752, \hB7F3,
    \h349A, \hFA29, \h5C99, \hD6E1, \hE49C, \hA3B9, \h8C9F, \h8F71, \h917A, \h3FF8, \hF979, \h1330,
    \h417C, \h6668, \h297F, \h4AA0, \hE6EC, \hFDDC, \h8EEF, \hD114, \h36EA, \hA44C, \h5EE9, \h8884,
    \h430C, \h380D, \h2B0F, \h14C5, \h930A, \h619D, \hFB09, \h4D55, \hA8C1, \h008F, \hC0C2, \h2C47,
    \h78C7, \h591F, \h10C4, \h75D7, \h0D21, \hC55E, \h6522, \hE996, \hDD27, \h9CCE, \hB524, \hB006,
    \h47EC, \h84C7, \h2FEF, \hA80F, \h97EA, \hDD57, \hFFE9, \hF19F, \hE20C, \h4116, \h8A0F, \h6DDE,
    \h320A, \h1886, \h5A09, \h344E, \h09C1, \h7994, \h61C2, \h555C, \hD9C7, \h2004, \hB1C4, \h0CCC,
    \hAC21, \hBC45, \hC422, \h908D, \h7C27, \hE5D5, \h1424, \hC91D, \hDBB7, \h7E61, \hB3B4, \h52A9,
    \h0BB1, \h27F1, \h63B2, \h0B39, \h7E57, \hBBB0, \h1654, \h9778, \hAE51, \hE220, \hC652, \hCEE8,
    \h959A, \h8332, \hFD99, \hAFFA, \h459C, \hDAA2, \h2D9F, \hF66A, \h307A, \h46E3, \h5879, \h6A2B,
    \hE07C, \h1F73, \h887F, \h33BB, \hF56E, \h0EF4, \h9D6D, \h223C, \h2568, \h5764, \h4D6B, \h7BAC,
    \h508E, \hCB25, \h388D, \hE7ED, \h8088, \h92B5, \hE88B, \hBE7D, \hBB43, \hF3A7, \hD340, \hDF6F,
    \h6B45, \hAA37, \h0346, \h86FF, \h1EA3, \h3676, \h76A0, \h1ABE, \hCEA5, \h6FE6, \hA6A6, \h432E,
    \h6935, \hF452, \h0136, \hD89A, \hB933, \hADC2, \hD130, \h810A, \hCCD5, \h3183, \hA4D6, \h1D4B,
    \h1CD3, \h6813, \h74D0, \h44DB, \h2718, \h0901, \h4F1B, \h25C9, \hF71E, \h5091, \h9F1D, \h7C59,
    \h82F8, \hCCD0, \hEAFB, \hE018, \h52FE, \h9540, \h3AFD, \hB988, \hC835, \h8D49, \hA036, \hA181,
    \h1833, \hD4D9, \h7030, \hF811, \h6DD5, \h4898, \h05D6, \h6450, \hBDD3, \h1108, \hD5D0, \h3DC0,
    \h8618, \h701A, \hEE1B, \h5CD2, \h561E, \h298A, \h3E1D, \h0542, \h23F8, \hB5CB, \h4BFB, \h9903,
    \hF3FE, \hEC5B, \h9BFD, \hC093, \h546E, \h77EF, \h3C6D, \h5B27, \h8468, \h2E7F, \hEC6B, \h02B7,
    \hF18E, \hB23E, \h998D, \h9EF6, \h2188, \hEBAE, \h498B, \hC766, \h1A43, \h8ABC, \h7240, \hA674,
    \hCA45, \hD32C, \hA246, \hFFE4, \hBFA3, \h4F6D, \hD7A0, \h63A5, \h6FA5, \h16FD, \h07A6, \h3A35,
    \h8FD9, \h098E, \hE7DA, \h2546, \h5FDF, \h501E, \h37DC, \h7CD6, \h2A39, \hCC5F, \h423A, \hE097,
    \hFA3F, \h95CF, \h923C, \hB907, \hC1F4, \hF4DD, \hA9F7, \hD815, \h11F2, \hAD4D, \h79F1, \h8185,
    \h6414, \h310C, \h0C17, \h1DC4, \hB412, \h689C, \hDC11, \h4454, \h1382, \hF328, \h7B81, \hDFE0,
    \hC384, \hAAB8, \hAB87, \h8670, \hB662, \h36F9, \hDE61, \h1A31, \h6664, \h6F69, \h0E67, \h43A1,
    \h5DAF, \h0E7B, \h35AC, \h22B3, \h8DA9, \h57EB, \hE5AA, \h7B23, \hF84F, \hCBAA, \h904C, \hE762,
    \h2849, \h923A, \h404A, \hBEF2, \hB282, \h8A33, \hDA81, \hA6FB, \h6284, \hD3A3, \h0A87, \hFF6B,
    \h1762, \h4FE2, \h7F61, \h632A, \hC764, \h1672, \hAF67, \h3ABA, \hFCAF, \h7760, \h94AC, \h5BA8,
    \h2CA9, \h2EF0, \h44AA, \h0238, \h594F, \hB2B1, \h314C, \h9E79, \h8949, \hEB21, \hE14A, \hC7E9,
    \h2ED9, \h7095, \h46DA, \h5C5D, \hFEDF, \h2905, \h96DC, \h05CD, \h8B39, \hB544, \hE33A, \h998C,
    \h5B3F, \hECD4, \h333C, \hC01C, \h60F4, \h8DC6, \h08F7, \hA10E, \hB0F2, \hD456, \hD8F1, \hF89E,
    \hC514, \h4817, \hAD17, \h64DF, \h1512, \h1187, \h7D11, \h3D4F>>

T8_7 ==
  <<\h0000, \h0000, \h493C, \h7D27, \h9278, \hFA4E, \hDB44, \h8769, \h211D, \h826D, \h6821, \hFF4A,
    \hB365, \h7823, \hFA59, \h0504, \h423B, \h04DA, \h0B07, \h79FD, \hD043, \hFE94, \h997F, \h83B3,
    \h6326, \h86B7, \h2A1A, \hFB90, \hF15E, \h7CF9, \hB862, \h01DE, \h8476, \h09B4, \hCD4A, \h7493,
    \h160E, \hF3FA, \h5F32, \h8EDD, \hA56B, \h8BD9, \hEC57, \hF6FE, \h3713, \h7197, \h7E2F, \h0CB0,
    \hC64D, \h0D6E, \h8F71, \h7049, \h5435, \hF720, \h1D09, \h8A07, \hE750, \h8F03, \hAE6C, \hF224,
    \h7528, \h754D, \h3C14, \h086A, \h0D00, \h6599, \h443C, \h18BE, \h9F78, \h9FD7, \hD644, \hE2F0,
    \h2C1D, \hE7F4, \h6521, \h9AD3, \hBE65, \h1DBA, \hF759, \h609D, \h4F3B, \h6143, \h0607, \h1C64,
    \hDD43, \h9B0D, \h947F, \hE62A, \h6E26, \hE32E, \h271A, \h9E09, \hFC5E, \h1960, \hB562, \h6447,
    \h8976, \h6C2D, \hC04A, \h110A, \h1B0E, \h9663, \h5232, \hEB44, \hA86B, \hEE40, \hE157, \h9367,
    \h3A13, \h140E, \h732F, \h6929, \hCB4D, \h68F7, \h8271, \h15D0, \h5935, \h92B9, \h1009, \hEF9E,
    \hEA50, \hEA9A, \hA36C, \h97BD, \h7828, \h10D4, \h3114, \h6DF3, \h1A00, \hCB32, \h533C, \hB615,
    \h8878, \h317C, \hC144, \h4C5B, \h3B1D, \h495F, \h7221, \h3478, \hA965, \hB311, \hE059, \hCE36,
    \h583B, \hCFE8, \h1107, \hB2CF, \hCA43, \h35A6, \h837F, \h4881, \h7926, \h4D85, \h301A, \h30A2,
    \hEB5E, \hB7CB, \hA262, \hCAEC, \h9E76, \hC286, \hD74A, \hBFA1, \h0C0E, \h38C8, \h4532, \h45EF,
    \hBF6B, \h40EB, \hF657, \h3DCC, \h2D13, \hBAA5, \h642F, \hC782, \hDC4D, \hC65C, \h9571, \hBB7B,
    \h4E35, \h3C12, \h0709, \h4135, \hFD50, \h4431, \hB46C, \h3916, \h6F28, \hBE7F, \h2614, \hC358,
    \h1700, \hAEAB, \h5E3C, \hD38C, \h8578, \h54E5, \hCC44, \h29C2, \h361D, \h2CC6, \h7F21, \h51E1,
    \hA465, \hD688, \hED59, \hABAF, \h553B, \hAA71, \h1C07, \hD756, \hC743, \h503F, \h8E7F, \h2D18,
    \h7426, \h281C, \h3D1A, \h553B, \hE65E, \hD252, \hAF62, \hAF75, \h9376, \hA71F, \hDA4A, \hDA38,
    \h010E, \h5D51, \h4832, \h2076, \hB26B, \h2572, \hFB57, \h5855, \h2013, \hDF3C, \h692F, \hA21B,
    \hD14D, \hA3C5, \h9871, \hDEE2, \h4335, \h598B, \h0A09, \h24AC, \hF050, \h21A8, \hB96C, \h5C8F,
    \h6228, \hDBE6, \h2B14, \hA6C1, \h3401, \h9664, \h7D3D, \hEB43, \hA679, \h6C2A, \hEF45, \h110D,
    \h151C, \h1409, \h5C20, \h692E, \h8764, \hEE47, \hCE58, \h9360, \h763A, \h92BE, \h3F06, \hEF99,
    \hE442, \h68F0, \hAD7E, \h15D7, \h5727, \h10D3, \h1E1B, \h6DF4, \hC55F, \hEA9D, \h8C63, \h97BA,
    \hB077, \h9FD0, \hF94B, \hE2F7, \h220F, \h659E, \h6B33, \h18B9, \h916A, \h1DBD, \hD856, \h609A,
    \h0312, \hE7F3, \h4A2E, \h9AD4, \hF24C, \h9B0A, \hBB70, \hE62D, \h6034, \h6144, \h2908, \h1C63,
    \hD351, \h1967, \h9A6D, \h6440, \h4129, \hE329, \h0815, \h9E0E, \h3901, \hF3FD, \h703D, \h8EDA,
    \hAB79, \h09B3, \hE245, \h7494, \h181C, \h7190, \h5120, \h0CB7, \h8A64, \h8BDE, \hC358, \hF6F9,
    \h7B3A, \hF727, \h3206, \h8A00, \hE942, \h0D69, \hA07E, \h704E, \h5A27, \h754A, \h131B, \h086D,
    \hC85F, \h8F04, \h8163, \hF223, \hBD77, \hFA49, \hF44B, \h876E, \h2F0F, \h0007, \h6633, \h7D20,
    \h9C6A, \h7824, \hD556, \h0503, \h0E12, \h826A, \h472E, \hFF4D, \hFF4C, \hFE93, \hB670, \h83B4,
    \h6D34, \h04DD, \h2408, \h79FA, \hDE51, \h7CFE, \h976D, \h01D9, \h4C29, \h86B0, \h0515, \hFB97,
    \h2E01, \h5D56, \h673D, \h2071, \hBC79, \hA718, \hF545, \hDA3F, \h0F1C, \hDF3B, \h4620, \hA21C,
    \h9D64, \h2575, \hD458, \h5852, \h6C3A, \h598C, \h2506, \h24AB, \hFE42, \hA3C2, \hB77E, \hDEE5,
    \h4D27, \hDBE1, \h041B, \hA6C6, \hDF5F, \h21AF, \h9663, \h5C88, \hAA77, \h54E2, \hE34B, \h29C5,
    \h380F, \hAEAC, \h7133, \hD38B, \h8B6A, \hD68F, \hC256, \hABA8, \h1912, \h2CC1, \h502E, \h51E6,
    \hE84C, \h5038, \hA170, \h2D1F, \h7A34, \hAA76, \h3308, \hD751, \hC951, \hD255, \h806D, \hAF72,
    \h5B29, \h281B, \h1215, \h553C, \h2301, \h38CF, \h6A3D, \h45E8, \hB179, \hC281, \hF845, \hBFA6,
    \h021C, \hBAA2, \h4B20, \hC785, \h9064, \h40EC, \hD958, \h3DCB, \h613A, \h3C15, \h2806, \h4132,
    \hF342, \hC65B, \hBA7E, \hBB7C, \h4027, \hBE78, \h091B, \hC35F, \hD25F, \h4436, \h9B63, \h3911,
    \hA777, \h317B, \hEE4B, \h4C5C, \h350F, \hCB35, \h7C33, \hB612, \h866A, \hB316, \hCF56, \hCE31,
    \h1412, \h4958, \h5D2E, \h347F, \hE54C, \h35A1, \hAC70, \h4886, \h7734, \hCFEF, \h3E08, \hB2C8,
    \hC451, \hB7CC, \h8D6D, \hCAEB, \h5629, \h4D82, \h1F15, \h30A5>>
=============================================================================
